---- MODULE Spec2Model ----
(***************************************************************************)
(* Telemetry subsystem of the hydromatic firmware: the Logger (on-flash    *)
(* ledger /data/active.log), the NetworkLogger (store-and-forward shipper) *)
(* and the part of the TimeManager that records NTP anchors, together with *)
(* the TCP collector and the network they talk to.                         *)
(*                                                                         *)
(* Time is the value of millis(); the model assumes an uptime below 2^32   *)
(* ms, so the 32-bit counter never wraps.                                  *)
(***************************************************************************)
EXTENDS Integers, Sequences, FiniteSets, TLC

(***************************************************************************)
(* Bounds of the model                                                     *)
(***************************************************************************)
\* number of application tasks that call Logger::logInfo concurrently
NumTasks == 2
\* log calls are started only while entry_seq is below this
MaxSeq == 3
\* millis() never exceeds this in a modelled run
MaxTime == 12000
\* capacity of the flash file system, in bytes (SPIFFS.totalBytes())
TotalBytes == 30
\* serialized length of one ledger line, in bytes
LineBytes == 10
\* lines the collector may have in flight towards the device
MaxInbox == 2
\* events the TimeManager logs in one boot
MaxEvents == 110
\* capacity of the application's command queue
QueueLen == 1
\* the value boot_counter.json held when the modelled boot started
PrevBoot == 1
\* applyBackoff calls in a row that BackoffSpec follows
MaxCalls == 4
\* LiveSpec: the latest uptime at which the network settles for good
StableBy == 2000
\* restarts of the device that StampSpec follows
MaxBoots == 2
\* calendar seconds from the start of one boot to the start of the next
BootSpacing == 100
\* StampSpec: the uptime that passes in an idle shipper cycle
StampStep == 5000
\* hours of uptime explored where the confidence ages
MaxHours == 26
\* the most credentials loadConfig loads in WifiSpec
MaxCredentials == 2

\* how long a delayed cycle may take: vTaskDelay(100) plus scheduling
Elapsed == {1000, 5000}

(***************************************************************************)
(* Program constants                                                       *)
(***************************************************************************)
\* NetworkLogger::NetworkLogger(), README.md:87-110
ack_timeout_ms == 2000
\* WiFiManager::WiFiManager(), main.cpp:116-119
connection_timeout_ms == 10000
disconnection_threshold_ms == 60000
max_attempts_per_network == 5
heartbeat_interval_ms == 1000
retry_backoff_ms == <<5000, 10000, 30000>>
\* Logger::ROTATION_THRESHOLD = 0.8f, as a fraction of ten
ROTATION_THRESHOLD_TENTHS == 8
\* calendar time (s) the NTP server reports at uptime 0 of the modelled boot
NtpEpoch == 1000000

Tasks == 1..NumTasks
\* the threads that take the mutexes: an application task, networkLoggerTask, timeTask
LockThreads == {"app", "net", "time"}
NoLine == [k |-> "none"]

VARIABLES
  \* ---- flash --------------------------------------------------------
  ledger,          \* /data/active.log: sequence of lines, oldest first
  bootFile,        \* /data/boot_counter.json: {"boot_seq": N}
  anchors,         \* /data/ntp_history.json: the "boots" array
  \* ---- Logger -------------------------------------------------------
  boot_seq,        \* Logger::boot_seq
  entry_seq,       \* Logger::entry_seq
  lpc,             \* position of each application task inside Logger::log
  lline,           \* the json_line each task has serialized
  lsnap,           \* the std::vector<String> lines read by pruneOldestEntries
  \* ---- NetworkLogger ------------------------------------------------
  is_connected,
  last_send_time,
  retry_index,
  next_retry_time,
  spc,             \* position of the shipper task inside handle()
  entry,           \* the String entry read by readFirstEntry in this cycle
  command_queue,   \* networkCommandQueue
  \* ---- TimeManager --------------------------------------------------
  ntp_state,
  confidence_state,
  ntp_attempt_time,
  current_time,    \* TimeManager::current_time, the time adopted
  last_sync_time,  \* TimeManager::last_sync_time, 0 before the first sync
  ntp_path,        \* the values the last handle() call assigned to ntp_state, in order
  \* ---- environment --------------------------------------------------
  now,             \* millis()
  wifiUp,          \* WiFi.status() == WL_CONNECTED
  stable,          \* from now on the network stays up and the collector answers in time
  sntp,            \* SNTP client: "off", "on" (configTime called), "set" (clock set)
  connAlive,       \* the TCP connection of tcp_client is open end to end
  outbox,          \* lines written by the device, not yet read by the collector
  inbox,           \* lines written by the collector, not yet read by the device
  \* ---- observation --------------------------------------------------
  lastAcc,         \* per boot generation: seq of the record last accepted by the collector
  removed,         \* the line last removed by deleteFirstEntry after an ack
  ackRe,           \* the line the ack last consumed by waitForAck answered
  shipped,         \* the wire line last sent by sendEntry / sendHeartbeat
  failures,        \* deliveries that failed since the last acknowledged one
  synced,          \* the boot generations in which an NTP sync has succeeded
  \* ---- mutexes ------------------------------------------------------
  critical,        \* per thread: the critical sections it is inside, innermost first
  \* ---- observation of Logger::log -----------------------------------
  logged,          \* the entries the last Logger::log call built, in order
  \* ---- WiFiManager --------------------------------------------------
  wifi,            \* the WiFiManager object: state, counters, timers, credentials loaded
  attempts,        \* observation: the credential index of each timed-out attempt, -1 for a connection
  \* ---- CycleManager and DeviceManager ------------------------------
  cycle,           \* the CycleManager object
  devices,         \* DeviceManager::devices: the state of each device, by id
  fed,             \* observation: cycles executed, uptime (at) and reported minute of the last
                   \* one, and the minute the last loop() call was told (seen)
  \* ---- FreeRTOS tasks and the WiFi status queue ---------------------
  wifiStatusQueue, \* the is_connected of the events queued, oldest first
  lastWiFiState,   \* wifiTask: the state it last published
  taskWifiIsConnected, \* timeTask (wifiIsConnected): the connectivity it passes to TimeManager::handle
  \* ---- TimeManager event log ----------------------------------------
  time_log,        \* the circular buffer: per slot the event stored, 0 when empty
  log_index,       \* the slot the next event is written to
  events,          \* observation: how many events were logged
  printed,         \* observation: what printTimeLog printed since the last event, in order
  \* ---- DeviceManager ------------------------------------------------
  deviceFile,      \* the device states in the configuration file
  selfWait,        \* observation: setState waited for a mutex its own task held
  restarts         \* environment: how often the device has restarted

flashVars == <<ledger, bootFile, anchors>>
loggerVars == <<boot_seq, entry_seq, lpc, lline, lsnap>>
shipVars == <<is_connected, last_send_time, retry_index, next_retry_time, spc, entry, command_queue>>
timeVars == <<ntp_state, confidence_state, ntp_attempt_time, current_time, last_sync_time, ntp_path>>
envVars == <<now, wifiUp, stable, sntp, connAlive, outbox, inbox>>
obsVars == <<lastAcc, removed, ackRe, shipped, failures, synced>>
cycleVars == <<cycle, devices, fed>>
queueVars == <<wifiStatusQueue, lastWiFiState, taskWifiIsConnected>>
ringVars == <<time_log, log_index, events, printed>>
devVars == <<deviceFile, selfWait>>
sideVars == <<critical, logged, wifi, attempts, cycleVars, queueVars, ringVars, devVars, restarts>>
vars == <<flashVars, loggerVars, shipVars, timeVars, envVars, obsVars, sideVars>>

(***************************************************************************)
(* Ledger lines and wire lines                                             *)
(***************************************************************************)
\* a record serialized by Logger::log: {"boot_seq","uptime_ms","seq",...}
Rec(b, s, u) == [k |-> "rec", boot_seq |-> b, seq |-> s, uptime_ms |-> u]
\* a line deserializeJson rejects (a torn write of an earlier power cycle)
BadLine == [k |-> "bad", boot_seq |-> 0, seq |-> 0, uptime_ms |-> 0]
Parses(line) == line.k = "rec"

RECURSIVE SumBytes(_)
SumBytes(lines) == IF lines = <<>> THEN 0 ELSE LineBytes + SumBytes(Tail(lines))

Drop(lines, n) == SubSeq(lines, n + 1, Len(lines))

(***************************************************************************)
(* Logger (src/src/logger.cpp)                                             *)
(***************************************************************************)
\* (size_t)(total * ROTATION_THRESHOLD)
RotationLimit == (TotalBytes * ROTATION_THRESHOLD_TENTHS) \div 10
\* (size_t)(total * ROTATION_THRESHOLD) / 2
RotationTarget == RotationLimit \div 2

\* checkAndRotateLog: the file exists and log_size > limit
NeedsRotation(lines) == lines # <<>> /\ SumBytes(lines) > RotationLimit

\* the while loop of pruneOldestEntries; need is the size_t current_size - target_size
RECURSIVE SkipLoop(_, _, _, _)
SkipLoop(lines, need, skipped_size, skip_count) ==
  IF skipped_size < need /\ skip_count < Len(lines)
  THEN SkipLoop(lines, need, skipped_size + LineBytes, skip_count + 1)
  ELSE skip_count

\* size_t subtraction: a negative difference wraps to a value above every file size
SizeDiff(a, b) == IF a >= b THEN a - b ELSE 2147483647

SkipCount(lines, target_size) ==
  LET n == SkipLoop(lines, SizeDiff(SumBytes(lines), target_size), 0, 0)
  IN IF n >= Len(lines) /\ Len(lines) > 0 THEN Len(lines) - 1 ELSE n

\* variant: the lines kept are the oldest ones
pruneOldestEntries_KeepsOldest(lines, target_size) ==
  SubSeq(lines, 1, Len(lines) - SkipCount(lines, target_size))

\* pruneOldestEntries: what is rewritten from the lines that were read
pruneOldestEntries(lines, target_size) == Drop(lines, SkipCount(lines, target_size))

\* checkAndRotateLog run without interruption
checkAndRotateLog(lines) ==
  IF NeedsRotation(lines) THEN pruneOldestEntries(lines, RotationTarget) ELSE lines

\* appendToLog with the mutex obtained and the file opened
appendToLog(lines, line) == Append(lines, line)

\* deleteFirstEntry: "Reads all lines, skips first, rewrites file"
deleteFirstEntry(lines) == IF lines = <<>> THEN lines ELSE Tail(lines)

\* one whole Logger::log call of boot generation b run without interruption
LogCallAs(b, lines, seq, uptime) ==
  [ledger |-> appendToLog(checkAndRotateLog(lines), Rec(b, seq, uptime)),
   entry_seq |-> seq + 1]

LogCall(lines, seq, uptime) == LogCallAs(boot_seq, lines, seq, uptime)

(***************************************************************************)
(* TimeManager: NTP history (src/unnamed/part_006)                         *)
(***************************************************************************)
\* set in time_manager.h, which is not part of the source tree; a small value
MAX_BOOT_HISTORY == 2
ntp_timeout_seconds == 5
confidence_window_hours == 24
\* begin(): mktime of 2025-01-01 00:00:00, the fallback time
compile_time == 1735689600
\* timeTask: xFrequency = pdMS_TO_TICKS(1000)
xFrequency == 1000
\* isTimeConfident: (now - last_sync_time) / 3600
SecondsPerHour == 3600
HourMs == SecondsPerHour * 1000

Anchor(b, t, u) == [boot_seq |-> b, ntp_sync_time |-> t, sync_uptime_ms |-> u]

HasAnchor(hist, b) == \E i \in 1..Len(hist) : hist[i].boot_seq = b

\* getNTPHistoryForBoot: the first entry of the boots array with this boot_seq
getNTPHistoryForBoot(hist, b) ==
  hist[CHOOSE i \in 1..Len(hist) :
         hist[i].boot_seq = b /\ \A j \in 1..(i - 1) : hist[j].boot_seq # b]

RECURSIVE PruneHistory(_)
PruneHistory(hist) ==
  IF Len(hist) > MAX_BOOT_HISTORY THEN PruneHistory(Tail(hist)) ELSE hist

\* variant: every sync adds an anchor
updateNTPHistory_AlwaysAdds(hist, b, t, u) ==
  PruneHistory(Append(hist, Anchor(b, t, u)))

\* updateNTPHistory: update in place or add, then keep the last MAX_BOOT_HISTORY
updateNTPHistory(hist, b, t, u) ==
  IF HasAnchor(hist, b)
  THEN LET i == CHOOSE i \in 1..Len(hist) :
                  hist[i].boot_seq = b /\ \A j \in 1..(i - 1) : hist[j].boot_seq # b
       IN PruneHistory([hist EXCEPT ![i] = Anchor(b, t, u)])
  ELSE PruneHistory(Append(hist, Anchor(b, t, u)))

\* time(nullptr) at uptime t once SNTP has set the clock: the calendar time
\* goes on over the restarts, whatever the boot counter says
CalendarAt(t) == NtpEpoch + BootSpacing * restarts + (t \div 1000)
CalendarNow == CalendarAt(now)
\* time(nullptr): seconds since power-on until the clock is set
SystemClock(t) == IF sntp = "set" THEN CalendarAt(t) ELSE t \div 1000

\* isTimeConfident at uptime t; lock: time_mutex is obtained within 100 ms
hours_since_sync(t) == (SystemClock(t) - last_sync_time) \div SecondsPerHour
isTimeConfident(t, lock) ==
  /\ lock
  /\ confidence_state = "CONFIDENT"
  /\ ~(confidence_window_hours > 0 /\ hours_since_sync(t) > confidence_window_hours)

\* getTime at uptime t
getTime(t, lock) ==
  IF lock
  THEN IF confidence_state = "CONFIDENT" THEN SystemClock(t) ELSE compile_time
  ELSE IF SystemClock(t) = 0 THEN compile_time ELSE SystemClock(t)

(***************************************************************************)
(* NetworkLogger (src/README.md, lines 77-693)                             *)
(***************************************************************************)
NullTs == [null |-> TRUE, sec |-> 0]
Ts(v) == [null |-> FALSE, sec |-> v]

\* A uint32_t is held as the int32_t with the same 32 bits: a value below 2^31
\* is itself, a value v from 2^31 on is v - 2^32.
MaxInt32 == 2147483647

\* int32_t uptime_delta_ms = entry_uptime_ms - sync_uptime_ms: the difference
\* modulo 2^32, read as a signed number
Int32Sub(a, b) ==
  IF (a >= 0) = (b >= 0) THEN a - b
  ELSE IF a >= 0
       THEN IF a <= MaxInt32 + b THEN a - b
            ELSE ((a - MaxInt32) - 1) - ((b + MaxInt32) + 1)
       ELSE IF a >= (b - MaxInt32) - 1 THEN a - b
            ELSE ((a + MaxInt32) + 1) + ((MaxInt32 - b) + 1)
\* C integer division truncates towards zero
TruncDiv(a, b) == IF a >= 0 \/ a % b = 0 THEN a \div b ELSE (a \div b) + 1

\* variant: a line written before the synchronisation gets no timestamp
calculateTimestamp_OnlyAfterSync(hist, b, entry_uptime_ms) ==
  IF ~HasAnchor(hist, b) THEN NullTs
  ELSE LET a == getNTPHistoryForBoot(hist, b)
       IN IF entry_uptime_ms < a.sync_uptime_ms THEN NullTs
          ELSE Ts(a.ntp_sync_time + TruncDiv(Int32Sub(entry_uptime_ms, a.sync_uptime_ms), 1000))

calculateTimestamp(hist, b, entry_uptime_ms) ==
  IF ~HasAnchor(hist, b) THEN NullTs
  ELSE LET a == getNTPHistoryForBoot(hist, b)
       IN Ts(a.ntp_sync_time + TruncDiv(Int32Sub(entry_uptime_ms, a.sync_uptime_ms), 1000))

\* what sendEntry / sendHeartbeat / handleCorruptedEntry serialize
Wire(kind, b, s, u, ts) == [k |-> kind, boot_seq |-> b, seq |-> s, uptime_ms |-> u, ts |-> ts]
\* variant: the record is stamped with the anchor of the running boot
WireRec_RunningBoot(line, hist) ==
  Wire("rec", line.boot_seq, line.seq, line.uptime_ms,
       calculateTimestamp(hist, boot_seq, line.uptime_ms))

WireRec(line, hist) ==
  Wire("rec", line.boot_seq, line.seq, line.uptime_ms,
       calculateTimestamp(hist, line.boot_seq, line.uptime_ms))
WireHeartbeat(hist, t) == Wire("heartbeat", boot_seq, 0, t, calculateTimestamp(hist, boot_seq, t))
WireDiag(hist, t) == Wire("diag", boot_seq, 0, t, calculateTimestamp(hist, boot_seq, t))

\* lines the collector writes
AckLine(w) == [k |-> "ack", name |-> "", re |-> w]
CmdLine(n) == [k |-> "cmd", name |-> n, re |-> NoLine]
\* lines waitForAck reads without accepting them: text that is no JSON
\* ("garbage"), a document whose ack is not 1 ("nack"); a document without
\* the ack key is the command line above
MalformedKinds == {"garbage", "nack"}
MalformedLine(kind) == [k |-> kind, name |-> "", re |-> NoLine]
\* waitForAck accepting every document that has the ack key
IsAck_AnyAckKey(l) == l.k \in {"ack", "nack"}
\* waitForAck: !error && doc.containsKey("ack") && doc["ack"] == 1
IsAck(l) == l.k = "ack"

\* applyBackoff with the hold one entry early (retry_index < 2)
applyBackoff_HoldsEarly(idx, t) ==
  IF idx < 2
  THEN [retry_index |-> idx + 1, next_retry_time |-> t + retry_backoff_ms[idx + 1]]
  ELSE [retry_index |-> idx, next_retry_time |-> t + retry_backoff_ms[2]]

\* applyBackoff (README.md:662-675); retry_backoff_ms is indexed from 1 here
applyBackoff(idx, t) ==
  IF idx < 3
  THEN [retry_index |-> idx + 1, next_retry_time |-> t + retry_backoff_ms[idx + 1]]
  ELSE [retry_index |-> idx, next_retry_time |-> t + retry_backoff_ms[3]]

\* resetBackoff
resetBackoff == [retry_index |-> 0, next_retry_time |-> 0]

\* the window check without the comparison with millis()
InBackoff_NeverExpires(nrt, t) == nrt > 0

\* handle(): if (next_retry_time > 0 && millis() < next_retry_time)
InBackoff(nrt, t) == nrt > 0 /\ t < nrt

(***************************************************************************)
(* Initial state: setup() has run Logger::begin() (boot counter read,      *)
(* incremented and written back, "Logger initialized" logged as seq 0),    *)
(* the other objects are as their constructors leave them.  The ledger may *)
(* still hold lines of the previous power cycle.                           *)
(***************************************************************************)
Gens == PrevBoot..(PrevBoot + 1 + MaxBoots)

Residual == { <<>>, <<Rec(PrevBoot, 0, 0)>>, <<BadLine>> }

\* DeviceManager::saveConfiguration: xSemaphoreTake(device_mutex, pdMS_TO_TICKS(1000))
device_mutex_timeout_ms == 1000
\* TimeManager: static const int MAX_LOG_ENTRIES (part_004:791)
MAX_LOG_ENTRIES == 100
\* printTimeLog has not run since the last event
NotPrinted == <<-1>>

\* the object the CycleManager constructor leaves (logger.cpp:425-437)
CycleManager ==
  [_enabled |-> FALSE, _frequencyMinutes |-> 20, _maxTimeLightsOffSeconds |-> 6 * SecondsPerHour,
   _lastFeedTime |-> 0, _lastLightState |-> FALSE, _triggeredThisMinute |-> FALSE]
\* the devices the CycleManager reads and drives
DeviceIds == {"light_power", "feed_pump"}
\* no cycle executed and setup() not yet run
NotFed == [count |-> 0, at |-> -1, minute |-> -1, seen |-> -1]

\* the object the WiFiManager constructor leaves (main.cpp:108-119); credentials is the
\* number of entries of the credentials vector, empty until loadConfig fills it
WiFiManager ==
  [state |-> "DISCONNECTED", current_credential_index |-> -1, attempt_counter |-> 0,
   state_change_time |-> 0, disconnection_time |-> 0, credentials |-> 0]

InitWith(lines, hist) ==
  /\ ledger = lines
  /\ bootFile = PrevBoot + 1
  /\ anchors = hist
  /\ boot_seq = PrevBoot + 1
  /\ entry_seq = 1
  /\ lpc = [t \in Tasks |-> "idle"]
  /\ lline = [t \in Tasks |-> NoLine]
  /\ lsnap = [t \in Tasks |-> <<>>]
  /\ is_connected = FALSE
  /\ last_send_time = 0
  /\ retry_index = 0
  /\ next_retry_time = 0
  /\ spc = "idle"
  /\ entry = NoLine
  /\ command_queue = <<>>
  /\ ntp_state = "IDLE"
  /\ confidence_state = "UNCONFIDENT"
  /\ ntp_attempt_time = 0
  /\ current_time = compile_time
  /\ last_sync_time = 0
  /\ ntp_path = <<>>
  /\ now = 0
  /\ wifiUp = FALSE
  /\ stable = FALSE
  /\ sntp = "off"
  /\ connAlive = FALSE
  /\ outbox = <<>>
  /\ inbox = <<>>
  /\ lastAcc = [g \in Gens |-> -1]
  /\ removed = NoLine
  /\ ackRe = NoLine
  /\ shipped = NoLine
  /\ failures = 0
  /\ synced = {}
  /\ critical = [th \in LockThreads |-> <<>>]
  /\ logged = <<>>
  /\ wifi = WiFiManager
  /\ attempts = <<>>
  /\ cycle = CycleManager
  /\ devices = [id \in DeviceIds |-> 0]
  /\ fed = NotFed
  /\ wifiStatusQueue = <<>>
  /\ lastWiFiState = "DISCONNECTED"
  /\ taskWifiIsConnected = FALSE
  /\ time_log = [i \in 0..(MAX_LOG_ENTRIES - 1) |-> 0]
  /\ log_index = 0
  /\ events = 0
  /\ printed = NotPrinted
  /\ deviceFile = [id \in DeviceIds |-> 0]
  /\ selfWait = FALSE
  /\ restarts = 0

Init == \E r \in Residual : InitWith(r \o <<Rec(PrevBoot + 1, 0, 0)>>, <<>>)

\* the ledger holds the record of this boot only
CycleInit == InitWith(<<Rec(PrevBoot + 1, 0, 0)>>, <<>>)

(***************************************************************************)
(* Application tasks inside Logger::log (logger.cpp:189-243).  A task can  *)
(* be preempted between the rotation check, the serialization of the       *)
(* entry, the append and the increment of entry_seq.                       *)
(***************************************************************************)
\* getSystemStats -> checkAndRotateLog -> pruneOldestEntries reads the lines
LogStartRotate(t) ==
  /\ lpc[t] = "idle"
  /\ entry_seq < MaxSeq
  /\ NeedsRotation(ledger)
  /\ lsnap' = [lsnap EXCEPT ![t] = ledger]
  /\ lpc' = [lpc EXCEPT ![t] = "prune"]
  /\ UNCHANGED <<flashVars, boot_seq, entry_seq, lline, shipVars, timeVars, envVars, obsVars>>
  /\ UNCHANGED sideVars

\* pruneOldestEntries rewrites the file; then entry_doc is built and serialized
LogPruneWrite(t) ==
  /\ lpc[t] = "prune"
  /\ ledger' = pruneOldestEntries(lsnap[t], RotationTarget)
  /\ lsnap' = [lsnap EXCEPT ![t] = <<>>]
  /\ lline' = [lline EXCEPT ![t] = Rec(boot_seq, entry_seq, now)]
  /\ lpc' = [lpc EXCEPT ![t] = "built"]
  /\ UNCHANGED <<bootFile, anchors, boot_seq, entry_seq, shipVars, timeVars, envVars, obsVars>>
  /\ UNCHANGED sideVars

\* no rotation needed: entry_doc is built and serialized
LogStartBuild(t) ==
  /\ lpc[t] = "idle"
  /\ entry_seq < MaxSeq
  /\ ~NeedsRotation(ledger)
  /\ lline' = [lline EXCEPT ![t] = Rec(boot_seq, entry_seq, now)]
  /\ lpc' = [lpc EXCEPT ![t] = "built"]
  /\ UNCHANGED <<flashVars, boot_seq, entry_seq, lsnap, shipVars, timeVars, envVars, obsVars>>
  /\ UNCHANGED sideVars

\* appendToLog: mutex taken, line appended
LogAppend(t) ==
  /\ lpc[t] = "built"
  /\ ledger' = appendToLog(ledger, lline[t])
  /\ lpc' = [lpc EXCEPT ![t] = "appended"]
  /\ UNCHANGED <<bootFile, anchors, boot_seq, entry_seq, lline, lsnap, shipVars, timeVars, envVars, obsVars>>
  /\ UNCHANGED sideVars

\* variant: a write that is dropped does not use up its sequence number
LogAppendDropped_KeepsSeq(t) ==
  /\ lpc[t] = "built"
  /\ \/ spc # "idle"
     \/ \E u \in Tasks \ {t} : lpc[u] = "built"
  /\ lpc' = [lpc EXCEPT ![t] = "idle"]
  /\ lline' = [lline EXCEPT ![t] = NoLine]
  /\ UNCHANGED <<flashVars, boot_seq, entry_seq, lsnap, shipVars, timeVars, envVars, obsVars>>
  /\ UNCHANGED sideVars

\* appendToLog: the mutex is held by another task for the whole bounded wait
LogAppendDropped(t) ==
  /\ lpc[t] = "built"
  /\ \/ spc # "idle"
     \/ \E u \in Tasks \ {t} : lpc[u] = "built"
  /\ lpc' = [lpc EXCEPT ![t] = "appended"]
  /\ UNCHANGED <<flashVars, boot_seq, entry_seq, lline, lsnap, shipVars, timeVars, envVars, obsVars>>
  /\ UNCHANGED sideVars

\* entry_seq++
LogInc(t) ==
  /\ lpc[t] = "appended"
  /\ entry_seq' = entry_seq + 1
  /\ lpc' = [lpc EXCEPT ![t] = "idle"]
  /\ lline' = [lline EXCEPT ![t] = NoLine]
  /\ UNCHANGED <<flashVars, boot_seq, lsnap, shipVars, timeVars, envVars, obsVars>>
  /\ UNCHANGED sideVars

(***************************************************************************)
(* NetworkLogger::handle (README.md:143-244), one shipper cycle.  The      *)
(* cycle runs without interruption up to the point where a line has been   *)
(* written to the socket; it is resumed when waitForAck returns.  Waiting  *)
(* for the ledger mutex is not counted as elapsed time.                    *)
(***************************************************************************)
\* checkForCommands with a line available (README.md:560-600)
checkForCommands ==
  LET l == Head(inbox)
      isCmd == l.k = "cmd"
      log == IF isCmd /\ l.name = "status"
             THEN LogCall(ledger, entry_seq, now)
             ELSE [ledger |-> ledger, entry_seq |-> entry_seq]
  IN [inbox |-> Tail(inbox),
      ledger |-> log.ledger,
      entry_seq |-> log.entry_seq,
      queue |-> IF isCmd /\ Len(command_queue) < QueueLen
                THEN Append(command_queue, l.name) ELSE command_queue]

\* handle(): if (is_connected) checkForCommands();
pre ==
  IF is_connected /\ inbox # <<>>
  THEN checkForCommands
  ELSE [inbox |-> inbox, ledger |-> ledger, entry_seq |-> entry_seq, queue |-> command_queue]

\* handle(): the connection once connectToServer has succeeded, or as it was
conn ==
  IF is_connected
  THEN [alive |-> connAlive, outbox |-> outbox, inbox |-> pre.inbox,
        backoff |-> [retry_index |-> retry_index, next_retry_time |-> next_retry_time],
        last |-> last_send_time]
  ELSE [alive |-> TRUE, outbox |-> <<>>, inbox |-> <<>>,
        backoff |-> resetBackoff, last |-> now]

\* connectToServer can return true: WiFi.status() == WL_CONNECTED
connectToServer == wifiUp

\* the cycle without the backoff check
Proceeds_IgnoresBackoff == spc = "idle" /\ (is_connected \/ connectToServer)

\* the cycle passes the backoff check and has a connection
Proceeds == spc = "idle" /\ ~InBackoff(next_retry_time, now) /\ (is_connected \/ connectToServer)

\* readFirstEntry: the first line, when the mutex is obtained and the file is not empty
readFirstEntry(lines, lockOk) ==
  IF lockOk /\ lines # <<>> THEN Head(lines) ELSE NoLine

\* the ledger mutex can time out only while another task is inside appendToLog
LockChoices == IF \E t \in Tasks : lpc[t] = "built" THEN BOOLEAN ELSE {TRUE}

\* shouldSendHeartbeat (README.md:683-692)
shouldSendHeartbeat(last, t) ==
  LET l == IF last = 0 THEN t ELSE last
  IN [last_send_time |-> l, should |-> (t - l >= heartbeat_interval_ms)]

\* tcp_client->print on the connection
tcpPrint(alive, box, w) == IF alive THEN Append(box, w) ELSE box

ShipFrame == UNCHANGED <<bootFile, anchors, boot_seq, lpc, lline, lsnap, timeVars, wifiUp, stable, sntp, lastAcc, synced,
                         sideVars>>

\* what every cycle start does before it branches; lines is the ledger it leaves
ShipPrefixWith(lines) ==
  /\ ledger' = lines
  /\ entry_seq' = pre.entry_seq
  /\ command_queue' = pre.queue
  /\ removed' = NoLine
  /\ ackRe' = NoLine
  /\ ShipFrame

ShipPrefix == ShipPrefixWith(pre.ledger)

\* the connection is stopped but the flag is left as it was
Disconnect_KeepsFlag ==
  /\ is_connected' = is_connected
  /\ connAlive' = FALSE
  /\ outbox' = <<>>
  /\ inbox' = <<>>

\* tcp_client->stop(); is_connected = false;
Disconnect ==
  /\ is_connected' = FALSE
  /\ connAlive' = FALSE
  /\ outbox' = <<>>
  /\ inbox' = <<>>

\* backoff window active: vTaskDelay and return
ShipSkip(d) ==
  /\ spc = "idle"
  /\ InBackoff(next_retry_time, now)
  /\ now + d <= MaxTime
  /\ now' = now + d
  /\ inbox' = pre.inbox
  /\ ShipPrefix
  /\ UNCHANGED <<is_connected, last_send_time, retry_index, next_retry_time, spc, entry,
                 connAlive, outbox, shipped>>
  /\ UNCHANGED failures

\* connectToServer returns false: applyBackoff and return
ShipConnectFail ==
  /\ spc = "idle"
  /\ ~InBackoff(next_retry_time, now)
  /\ ~is_connected
  /\ LET b == applyBackoff(retry_index, now)
     IN /\ retry_index' = b.retry_index
        /\ next_retry_time' = b.next_retry_time
  /\ ShipPrefix
  /\ UNCHANGED <<is_connected, last_send_time, spc, entry, now, connAlive, outbox, inbox, shipped>>
  /\ UNCHANGED failures

\* a parseable entry is read, stamped and written to the socket
ShipSendRecord ==
  /\ Proceeds
  /\ LET e == readFirstEntry(pre.ledger, TRUE)
         w == WireRec(e, anchors)
     IN /\ e # NoLine /\ Parses(e)
        /\ entry' = e
        /\ shipped' = w
        /\ outbox' = tcpPrint(conn.alive, conn.outbox, w)
  /\ is_connected' = TRUE
  /\ connAlive' = conn.alive
  /\ inbox' = conn.inbox
  /\ last_send_time' = conn.last
  /\ retry_index' = conn.backoff.retry_index
  /\ next_retry_time' = conn.backoff.next_retry_time
  /\ spc' = "sent"
  /\ ShipPrefix
  /\ UNCHANGED now
  /\ UNCHANGED failures

\* sendEntry returns false: applyBackoff, stop
ShipSendFail ==
  /\ Proceeds
  /\ ~conn.alive
  /\ LET e == readFirstEntry(pre.ledger, TRUE)
         b == applyBackoff(conn.backoff.retry_index, now)
     IN /\ e # NoLine /\ Parses(e)
        /\ entry' = e
        /\ retry_index' = b.retry_index
        /\ next_retry_time' = b.next_retry_time
  /\ shipped' = NoLine
  /\ Disconnect
  /\ last_send_time' = conn.last
  /\ ShipPrefix
  /\ UNCHANGED <<spc, now>>
  /\ failures' = failures + 1

\* an unparseable entry is read: handleCorruptedEntry calls getSystemStats (which
\* runs checkAndRotateLog) and writes the diagnostic line
ShipCorrupt ==
  /\ Proceeds
  /\ LET e == readFirstEntry(pre.ledger, TRUE)
     IN /\ e # NoLine /\ ~Parses(e)
        /\ entry' = e
  /\ outbox' = tcpPrint(conn.alive, conn.outbox, WireDiag(anchors, now))
  /\ shipped' = NoLine
  /\ is_connected' = TRUE
  /\ connAlive' = conn.alive
  /\ inbox' = conn.inbox
  /\ last_send_time' = conn.last
  /\ retry_index' = conn.backoff.retry_index
  /\ next_retry_time' = conn.backoff.next_retry_time
  /\ spc' = "diag"
  /\ ShipPrefixWith(checkAndRotateLog(pre.ledger))
  /\ UNCHANGED now
  /\ UNCHANGED failures

\* no entry read, heartbeat due and written to the socket; sendHeartbeat calls
\* getSystemStats, which runs checkAndRotateLog
ShipHeartbeat ==
  /\ Proceeds
  /\ \E lockOk \in LockChoices :
       /\ readFirstEntry(pre.ledger, lockOk) = NoLine
       /\ shouldSendHeartbeat(conn.last, now).should
  /\ last_send_time' = shouldSendHeartbeat(conn.last, now).last_send_time
  /\ outbox' = tcpPrint(conn.alive, conn.outbox, WireHeartbeat(anchors, now))
  /\ shipped' = WireHeartbeat(anchors, now)
  /\ is_connected' = TRUE
  /\ connAlive' = conn.alive
  /\ inbox' = conn.inbox
  /\ retry_index' = conn.backoff.retry_index
  /\ next_retry_time' = conn.backoff.next_retry_time
  /\ spc' = "hb"
  /\ ShipPrefixWith(checkAndRotateLog(pre.ledger))
  /\ UNCHANGED <<entry, now>>
  /\ UNCHANGED failures

\* no entry read, heartbeat due, the write fails: applyBackoff, stop
ShipHeartbeatFail ==
  /\ Proceeds
  /\ ~conn.alive
  /\ \E lockOk \in LockChoices :
       /\ readFirstEntry(pre.ledger, lockOk) = NoLine
       /\ shouldSendHeartbeat(conn.last, now).should
  /\ last_send_time' = shouldSendHeartbeat(conn.last, now).last_send_time
  /\ LET b == applyBackoff(conn.backoff.retry_index, now)
     IN /\ retry_index' = b.retry_index
        /\ next_retry_time' = b.next_retry_time
  /\ shipped' = NoLine
  /\ Disconnect
  /\ ShipPrefixWith(checkAndRotateLog(pre.ledger))
  /\ UNCHANGED <<spc, entry, now>>
  /\ failures' = failures + 1

\* no entry read and no heartbeat due: vTaskDelay
ShipIdle(d) ==
  /\ Proceeds
  /\ \E lockOk \in LockChoices :
       /\ readFirstEntry(pre.ledger, lockOk) = NoLine
       /\ ~shouldSendHeartbeat(conn.last, now).should
  /\ last_send_time' = shouldSendHeartbeat(conn.last, now).last_send_time
  /\ now + d <= MaxTime
  /\ now' = now + d
  /\ shipped' = NoLine
  /\ is_connected' = TRUE
  /\ connAlive' = conn.alive
  /\ outbox' = conn.outbox
  /\ inbox' = conn.inbox
  /\ retry_index' = conn.backoff.retry_index
  /\ next_retry_time' = conn.backoff.next_retry_time
  /\ ShipPrefix
  /\ UNCHANGED <<spc, entry>>
  /\ UNCHANGED failures

(***************************************************************************)
(* waitForAck (README.md:468-497) and what handle() does with its result   *)
(***************************************************************************)
Waiting == spc \in {"sent", "diag", "hb"}

WaitFrame == UNCHANGED <<bootFile, anchors, loggerVars, command_queue, timeVars, wifiUp, stable, sntp,
                         lastAcc, synced, entry, shipped, sideVars>>

\* a line that is no valid ack is read and dropped; the loop goes on
ShipAckDiscard ==
  /\ Waiting
  /\ inbox # <<>> /\ ~IsAck(Head(inbox))
  /\ inbox' = Tail(inbox)
  /\ WaitFrame
  /\ UNCHANGED <<ledger, is_connected, last_send_time, retry_index, next_retry_time, spc,
                 now, connAlive, outbox, removed, ackRe>>
  /\ UNCHANGED failures

\* ack read after sendEntry: deleteFirstEntry, and on success resetBackoff
ShipAcked ==
  /\ spc = "sent"
  /\ inbox # <<>> /\ IsAck(Head(inbox))
  /\ inbox' = Tail(inbox)
  /\ ackRe' = Head(inbox).re
  /\ \E lockOk \in LockChoices :
       IF lockOk /\ ledger # <<>>
       THEN /\ ledger' = deleteFirstEntry(ledger)
            /\ removed' = Head(ledger)
            /\ last_send_time' = now
            /\ retry_index' = resetBackoff.retry_index
            /\ next_retry_time' = resetBackoff.next_retry_time
            /\ failures' = 0
       ELSE UNCHANGED <<ledger, removed, last_send_time, retry_index, next_retry_time, failures>>
  /\ spc' = "idle"
  /\ WaitFrame
  /\ UNCHANGED <<is_connected, now, connAlive, outbox>>

\* no ack within ack_timeout_ms after sendEntry: applyBackoff, stop
ShipNoAck ==
  /\ spc = "sent"
  /\ now + ack_timeout_ms <= MaxTime
  /\ now' = now + ack_timeout_ms
  /\ LET b == applyBackoff(retry_index, now + ack_timeout_ms)
     IN /\ retry_index' = b.retry_index
        /\ next_retry_time' = b.next_retry_time
  /\ Disconnect
  /\ spc' = "idle"
  /\ WaitFrame
  /\ UNCHANGED <<ledger, last_send_time, removed, ackRe>>
  /\ failures' = failures + 1

\* handleCorruptedEntry got its ack: the corrupted entry is deleted
ShipDiagAcked ==
  /\ spc = "diag"
  /\ inbox # <<>> /\ IsAck(Head(inbox))
  /\ inbox' = Tail(inbox)
  /\ \E lockOk \in LockChoices :
       ledger' = IF lockOk THEN deleteFirstEntry(ledger) ELSE ledger
  /\ spc' = "idle"
  /\ WaitFrame
  /\ UNCHANGED <<is_connected, last_send_time, retry_index, next_retry_time, now, connAlive,
                 outbox, removed, ackRe>>
  /\ UNCHANGED failures

\* handleCorruptedEntry got no ack in time: the corrupted entry is deleted all the same
ShipDiagTimeout ==
  /\ spc = "diag"
  /\ now + ack_timeout_ms <= MaxTime
  /\ now' = now + ack_timeout_ms
  /\ \E lockOk \in LockChoices :
       ledger' = IF lockOk THEN deleteFirstEntry(ledger) ELSE ledger
  /\ spc' = "idle"
  /\ WaitFrame
  /\ UNCHANGED <<is_connected, last_send_time, retry_index, next_retry_time, connAlive,
                 outbox, inbox, removed, ackRe>>
  /\ UNCHANGED failures

\* sendHeartbeat returns true: last_send_time = millis(), resetBackoff
ShipHbAcked ==
  /\ spc = "hb"
  /\ inbox # <<>> /\ IsAck(Head(inbox))
  /\ inbox' = Tail(inbox)
  /\ ackRe' = Head(inbox).re
  /\ last_send_time' = now
  /\ retry_index' = resetBackoff.retry_index
  /\ next_retry_time' = resetBackoff.next_retry_time
  /\ spc' = "idle"
  /\ WaitFrame
  /\ UNCHANGED <<ledger, is_connected, now, connAlive, outbox, removed>>
  /\ failures' = 0

\* sendHeartbeat returns false after the ack timeout: applyBackoff, stop
ShipHbNoAck ==
  /\ spc = "hb"
  /\ now + ack_timeout_ms <= MaxTime
  /\ now' = now + ack_timeout_ms
  /\ LET b == applyBackoff(retry_index, now + ack_timeout_ms)
     IN /\ retry_index' = b.retry_index
        /\ next_retry_time' = b.next_retry_time
  /\ Disconnect
  /\ spc' = "idle"
  /\ WaitFrame
  /\ UNCHANGED <<ledger, last_send_time, removed, ackRe>>
  /\ failures' = failures + 1

\* Logger::MAX_MESSAGE_SIZE
MAX_MESSAGE_SIZE == 512
\* logDebug, logInfo, logWarning, logError
Levels == {"debug", "info", "warning", "error"}
\* lengths vsnprintf can report for the formatted message
MessageLengths == {0, 1, 60, 64, 511, 512, 513, 600}

RECURSIVE Digits(_)
Digits(n) == IF n < 10 THEN 1 ELSE 1 + Digits(n \div 10)

\* "Log entry truncated (%d chars), sample: %s" with a sample of 63 characters
FollowUpLength(len) == 38 + Digits(len) + 63

\* Logger::log(level, fmt, args): the entries it builds, where len is what
\* vsnprintf returns; message holds MAX_MESSAGE_SIZE characters and the NUL
RECURSIVE logMessage(_, _)
logMessage(level, len) ==
  LET truncated == len >= MAX_MESSAGE_SIZE
      e == [level |-> level, len |-> len,
            msg_len |-> IF len >= MAX_MESSAGE_SIZE THEN MAX_MESSAGE_SIZE ELSE len]
  IN IF truncated /\ level # "error"
     THEN <<e>> \o logMessage("error", FollowUpLength(len))
     ELSE <<e>>

\* an application task calls Logger::log with a message of the given length:
\* every entry built is appended and takes a sequence number
LogMessage(level, len) ==
  /\ \A t \in Tasks : lpc[t] = "idle"
  /\ LET built == logMessage(level, len)
         l1 == LogCall(ledger, entry_seq, now)
         l2 == IF Len(built) > 1 THEN LogCall(l1.ledger, l1.entry_seq, now) ELSE l1
     IN /\ entry_seq + Len(built) <= MaxSeq + 1
        /\ logged' = built
        /\ ledger' = l2.ledger
        /\ entry_seq' = l2.entry_seq
  /\ UNCHANGED <<bootFile, anchors, boot_seq, lpc, lline, lsnap, shipVars, timeVars, envVars,
                 obsVars, critical, wifi, attempts, cycleVars, queueVars,
                 ringVars, devVars, restarts>>

\* an application task runs one whole Logger::log call (logger.cpp:189-243)
LogEvent ==
  /\ entry_seq < MaxSeq
  /\ \A t \in Tasks : lpc[t] = "idle"
  /\ LET l == LogCall(ledger, entry_seq, now)
     IN /\ ledger' = l.ledger
        /\ entry_seq' = l.entry_seq
  /\ UNCHANGED <<bootFile, anchors, boot_seq, lpc, lline, lsnap, shipVars, timeVars, envVars,
                 obsVars>>
  /\ UNCHANGED sideVars

\* the application task takes a command from the queue
AppDrain ==
  /\ command_queue # <<>>
  /\ command_queue' = Tail(command_queue)
  /\ UNCHANGED <<flashVars, loggerVars, is_connected, last_send_time, retry_index,
                 next_retry_time, spc, entry, timeVars, envVars, obsVars>>
  /\ UNCHANGED sideVars

(***************************************************************************)
(* The collector (TCP log server) and the network                          *)
(***************************************************************************)
\* the server reads one line and answers {"ack":1}; with journal it also
\* notes the sequence number it accepted for the line's generation
CollectorReply(journal) ==
  /\ connAlive
  /\ outbox # <<>>
  /\ LET w == Head(outbox)
     IN /\ inbox' = Append(inbox, AckLine(w))
        /\ lastAcc' = IF journal /\ w.k = "rec"
                         THEN [lastAcc EXCEPT ![w.boot_seq] = w.seq]
                         ELSE lastAcc
  /\ outbox' = Tail(outbox)
  /\ UNCHANGED <<flashVars, loggerVars, shipVars, timeVars, now, wifiUp, stable, sntp, connAlive,
                 removed, ackRe, shipped, failures, synced>>
  /\ UNCHANGED sideVars

CollectorAccept == CollectorReply(TRUE)

\* the same reply, the acceptance journal left aside
CollectorAnswer == CollectorReply(FALSE)

\* the server sends {"cmd":"status"}
CollectorCommand ==
  /\ connAlive
  /\ Len(inbox) < MaxInbox
  /\ entry_seq < MaxSeq
  /\ \A i \in 1..Len(inbox) : inbox[i].k # "cmd"
  /\ inbox' = Append(inbox, CmdLine("status"))
  /\ UNCHANGED <<flashVars, loggerVars, shipVars, timeVars, now, wifiUp, stable, sntp, connAlive,
                 outbox, obsVars>>
  /\ UNCHANGED sideVars

EnvWifiUp ==
  /\ ~wifiUp
  /\ wifiUp' = TRUE
  /\ UNCHANGED <<flashVars, loggerVars, shipVars, timeVars, now, sntp, connAlive, outbox,
                 inbox, stable, obsVars>>
  /\ UNCHANGED sideVars

\* connectivity is lost: what was in flight to the collector is lost with it
EnvWifiDown ==
  /\ wifiUp
  /\ wifiUp' = FALSE
  /\ connAlive' = FALSE
  /\ outbox' = <<>>
  /\ UNCHANGED <<flashVars, loggerVars, shipVars, timeVars, now, sntp, inbox, stable, obsVars>>
  /\ UNCHANGED sideVars

\* from this point on connectivity stays up and the collector accepts
\* connections and answers every line within ack_timeout_ms
EnvStabilize ==
  /\ ~stable
  /\ now <= StableBy
  /\ stable' = TRUE
  /\ wifiUp' = TRUE
  /\ UNCHANGED <<flashVars, loggerVars, shipVars, timeVars, now, sntp, connAlive, outbox,
                 inbox, obsVars>>
  /\ UNCHANGED sideVars

\* the collector has a line of this connection to answer, or its answer is there
AckComing == (connAlive /\ outbox # <<>>) \/ (\E i \in 1..Len(inbox) : IsAck(inbox[i]))

\* the SNTP client started by configTime gets its answer and sets the clock
EnvSntpReply ==
  /\ wifiUp
  /\ sntp = "on"
  /\ sntp' = "set"
  /\ UNCHANGED <<flashVars, loggerVars, shipVars, timeVars, now, wifiUp, stable, connAlive, outbox,
                 inbox, obsVars>>
  /\ UNCHANGED sideVars

(***************************************************************************)
(* TimeManager::handle (part_006:666-681), called by timeTask              *)
(***************************************************************************)
TimeFrame0 == UNCHANGED <<ledger, bootFile, loggerVars, shipVars, wifiUp, stable, connAlive,
                          outbox, inbox, lastAcc, removed, ackRe, shipped, failures, sideVars>>
TimeFrame == TimeFrame0 /\ UNCHANGED now

\* updateNTPState: time(nullptr) is plausible (tm_year >= 120)
got_valid_time == sntp = "set"

\* the TimeManager, the SNTP client it starts and the history file it writes
TimeState ==
  [ntp_state |-> ntp_state, confidence_state |-> confidence_state,
   ntp_attempt_time |-> ntp_attempt_time, current_time |-> current_time,
   last_sync_time |-> last_sync_time, anchors |-> anchors, sntp |-> sntp, path |-> <<>>]

\* updateNTPState at uptime t.  lockA: setSystemTime obtains time_mutex within
\* its 100 ms; lockB: the branch itself obtains it.
\* variant: an attempt without an answer is never given up
updateNTPState_NeverGivesUp(s, t, lockA, lockB) ==
  IF s.ntp_state # "SYNCING" THEN s
  ELSE IF s.sntp = "set"
  THEN [s EXCEPT !.current_time = IF lockA THEN CalendarAt(t) ELSE @,
                 !.confidence_state = IF lockB THEN "CONFIDENT" ELSE @,
                 !.last_sync_time = IF lockB THEN CalendarAt(t) ELSE @,
                 !.anchors = updateNTPHistory(@, boot_seq, CalendarAt(t), t),
                 !.ntp_state = "IDLE",
                 !.path = <<"SUCCESS", "IDLE">>]
  ELSE s

updateNTPState(s, t, lockA, lockB) ==
  IF s.ntp_state # "SYNCING" THEN s
  ELSE IF s.sntp = "set"
  THEN [s EXCEPT !.current_time = IF lockA THEN CalendarAt(t) ELSE @,
                 !.confidence_state = IF lockB THEN "CONFIDENT" ELSE @,
                 !.last_sync_time = IF lockB THEN CalendarAt(t) ELSE @,
                 !.anchors = updateNTPHistory(@, boot_seq, CalendarAt(t), t),
                 !.ntp_state = "IDLE",
                 !.path = <<"SUCCESS", "IDLE">>]
  ELSE IF t - s.ntp_attempt_time >= ntp_timeout_seconds * 1000
  THEN [s EXCEPT !.confidence_state = IF lockB THEN "UNCONFIDENT" ELSE @,
                 !.current_time = IF lockB THEN compile_time ELSE @,
                 !.ntp_state = "IDLE",
                 !.path = <<"FAILED", "IDLE">>]
  ELSE s

performNTPSync(s, t) ==
  IF s.ntp_state = "SYNCING" THEN s
  ELSE [s EXCEPT !.ntp_state = "SYNCING",
                 !.ntp_attempt_time = t,
                 !.sntp = IF @ = "off" THEN "on" ELSE @,
                 !.path = Append(@, "SYNCING")]

\* variant: a sync is started whatever the confidence
handle_IgnoresConfidence(s, t, wifiIsConnected, lockA, lockB) ==
  LET a == updateNTPState(s, t, lockA, lockB)
      b == IF wifiIsConnected /\ a.ntp_state = "IDLE"
           THEN performNTPSync(a, t) ELSE a
  IN IF ~wifiIsConnected /\ b.ntp_state = "SYNCING"
     THEN [b EXCEPT !.ntp_state = "IDLE", !.path = Append(@, "IDLE")]
     ELSE b

\* TimeManager::handle(wifiIsConnected) at uptime t
handle(s, t, wifiIsConnected, lockA, lockB) ==
  LET a == updateNTPState(s, t, lockA, lockB)
      b == IF wifiIsConnected /\ a.confidence_state = "UNCONFIDENT" /\ a.ntp_state = "IDLE"
           THEN performNTPSync(a, t) ELSE a
  IN IF ~wifiIsConnected /\ b.ntp_state = "SYNCING"
     THEN [b EXCEPT !.ntp_state = "IDLE", !.path = Append(@, "IDLE")]
     ELSE b

\* one handle(wifiIsConnected) call at uptime t
TimeHandleWith(t, wifiIsConnected, lockA, lockB) ==
  LET r == handle(TimeState, t, wifiIsConnected, lockA, lockB)
  IN /\ ntp_state' = r.ntp_state
     /\ confidence_state' = r.confidence_state
     /\ ntp_attempt_time' = r.ntp_attempt_time
     /\ current_time' = r.current_time
     /\ last_sync_time' = r.last_sync_time
     /\ anchors' = r.anchors
     /\ sntp' = r.sntp
     /\ ntp_path' = r.path
     /\ synced' = IF r.path # <<>> /\ Head(r.path) = "SUCCESS"
                    THEN synced \cup {boot_seq} ELSE synced

\* one handle() call at uptime t by a task that sees the connectivity as it is
TimeHandleAt(t, lockA, lockB) == TimeHandleWith(t, wifiUp, lockA, lockB)

\* handle() in IDLE with WiFi up and no confidence: performNTPSync
TimeSyncStart ==
  /\ ntp_state = "IDLE"
  /\ wifiUp /\ confidence_state = "UNCONFIDENT"
  /\ TimeHandleAt(now, TRUE, TRUE)
  /\ TimeFrame

\* handle() in SYNCING with the clock set: updateNTPState, success branch
TimeSyncSuccess ==
  /\ ntp_state = "SYNCING"
  /\ got_valid_time
  /\ TimeHandleAt(now, TRUE, TRUE)
  /\ TimeFrame

\* the same with time_mutex held by another task for one or both of the waits
TimeSyncSuccessBusy ==
  /\ ntp_state = "SYNCING"
  /\ got_valid_time
  /\ \E lockA, lockB \in BOOLEAN : ~(lockA /\ lockB) /\ TimeHandleAt(now, lockA, lockB)
  /\ TimeFrame

\* handle() in SYNCING after the timeout: updateNTPState, timeout branch, and
\* the next attempt if WiFi is up
TimeSyncTimeout ==
  /\ ntp_state = "SYNCING"
  /\ ~got_valid_time
  /\ now - ntp_attempt_time >= ntp_timeout_seconds * 1000
  /\ TimeHandleAt(now, TRUE, TRUE)
  /\ TimeFrame

\* timeTask sleeps until its next period (vTaskDelayUntil, part_004:409)
TimeTaskWait(d) ==
  /\ spc = "idle"
  /\ now + d <= MaxTime
  /\ now' = now + d
  /\ UNCHANGED <<flashVars, loggerVars, shipVars, timeVars, wifiUp, stable, sntp, connAlive,
                 outbox, inbox, obsVars>>
  /\ UNCHANGED sideVars

\* handle() in SYNCING with WiFi disconnected: abort
TimeSyncAbort ==
  /\ ntp_state = "SYNCING"
  /\ ~got_valid_time
  /\ now - ntp_attempt_time < ntp_timeout_seconds * 1000
  /\ ~wifiUp
  /\ TimeHandleAt(now, TRUE, TRUE)
  /\ TimeFrame

\* hours in which handle() is called and changes nothing: the TimeManager is
\* IDLE and CONFIDENT
TimeTaskQuiet ==
  /\ ntp_state = "IDLE"
  /\ confidence_state = "CONFIDENT"
  /\ now + HourMs <= MaxHours * HourMs
  /\ now' = now + HourMs
  /\ ntp_path' = <<>>
  /\ UNCHANGED <<flashVars, loggerVars, shipVars, ntp_state, confidence_state, ntp_attempt_time,
                 current_time, last_sync_time, wifiUp, stable, sntp, connAlive, outbox, inbox,
                 obsVars>>
  /\ UNCHANGED sideVars

\* one round of the loop of timeTask: vTaskDelayUntil, then handle(); the
\* rounds are followed one by one during the first MaxTime ms of an hour
TimeTick ==
  /\ (now % HourMs) + xFrequency <= MaxTime
  /\ now' = now + xFrequency
  /\ \E lockA, lockB \in BOOLEAN : TimeHandleAt(now + xFrequency, lockA, lockB)
  /\ TimeFrame0

(***************************************************************************)
(* Restart of the device: setup() runs again.  Logger::begin (logger.cpp:   *)
(* 41-84) increments and stores the boot counter, resets entry_seq and     *)
(* logs "Logger initialized"; the other objects are constructed anew.  The *)
(* files on flash stay.                                                    *)
(***************************************************************************)
\* readBootCounter: the value in the file, or 0 when the file is missing,
\* cannot be opened or does not parse (got = FALSE); an empty file is held as 0
readBootCounter(file, got) == IF got THEN file ELSE 0

\* writeBootCounter: "ok" the file holds seq; "kept" the file could not be
\* opened for writing and keeps its content; "empty" it was opened (and so
\* truncated) and nothing was written
WriteOutcomes == {"ok", "kept", "empty"}
writeBootCounter(file, seq, outcome) ==
  CASE outcome = "ok" -> seq
    [] outcome = "kept" -> file
    [] outcome = "empty" -> 0

begin(got, outcome) ==
  /\ boot_seq < PrevBoot + 1 + MaxBoots
  /\ restarts < MaxBoots
  /\ bootFile' = writeBootCounter(bootFile, readBootCounter(bootFile, got) + 1, outcome)
  /\ boot_seq' = readBootCounter(bootFile, got) + 1
  /\ LET l == LogCallAs(readBootCounter(bootFile, got) + 1, ledger, 0, 0)
     IN /\ ledger' = l.ledger
        /\ entry_seq' = l.entry_seq
  /\ lpc' = [t \in Tasks |-> "idle"]
  /\ lline' = [t \in Tasks |-> NoLine]
  /\ lsnap' = [t \in Tasks |-> <<>>]
  /\ is_connected' = FALSE
  /\ last_send_time' = 0
  /\ retry_index' = 0
  /\ next_retry_time' = 0
  /\ spc' = "idle"
  /\ entry' = NoLine
  /\ command_queue' = <<>>
  /\ ntp_state' = "IDLE"
  /\ confidence_state' = "UNCONFIDENT"
  /\ ntp_attempt_time' = 0
  /\ current_time' = compile_time
  /\ last_sync_time' = 0
  /\ ntp_path' = <<>>
  /\ now' = 0
  /\ wifiUp' = FALSE
  /\ sntp' = "off"
  /\ connAlive' = FALSE
  /\ outbox' = <<>>
  /\ inbox' = <<>>
  /\ removed' = NoLine
  /\ ackRe' = NoLine
  /\ shipped' = NoLine
  /\ failures' = 0
  /\ critical' = [th \in LockThreads |-> <<>>]
  /\ logged' = <<>>
  /\ wifi' = WiFiManager
  /\ attempts' = <<>>
  /\ cycle' = CycleManager
  /\ fed' = NotFed
  /\ wifiStatusQueue' = <<>>
  /\ lastWiFiState' = "DISCONNECTED"
  /\ taskWifiIsConnected' = FALSE
  /\ time_log' = [i \in 0..(MAX_LOG_ENTRIES - 1) |-> 0]
  /\ log_index' = 0
  /\ events' = 0
  /\ printed' = NotPrinted
  /\ selfWait' = FALSE
  /\ restarts' = restarts + 1
  /\ UNCHANGED <<devices, deviceFile>>
  /\ UNCHANGED <<anchors, stable, lastAcc, synced>>

\* a restart in which the boot counter file is read and written
Reboot == begin(TRUE, "ok")

\* a restart in which the read or the write of the boot counter file fails
RebootFault ==
  \E got \in BOOLEAN, outcome \in WriteOutcomes :
    /\ ~(got /\ outcome = "ok")
    /\ begin(got, outcome)

(***************************************************************************)
(* Specifications.  The whole system is too large to explore at once, so   *)
(* each specification runs the tasks one concern is about.  Every          *)
(* behaviour of a specification is a behaviour of the firmware: the tasks  *)
(* it leaves out are tasks that are not scheduled, or an environment that  *)
(* does not act.                                                           *)
(***************************************************************************)
LoggerNext ==
  \/ \E t \in Tasks : LogStartRotate(t)
  \/ \E t \in Tasks : LogPruneWrite(t)
  \/ \E t \in Tasks : LogStartBuild(t)
  \/ \E t \in Tasks : LogAppend(t)
  \/ \E t \in Tasks : LogAppendDropped(t)
  \/ \E t \in Tasks : LogInc(t)

\* every way a shipper cycle can go
ShipperNext ==
  \/ \E d \in Elapsed : ShipSkip(d)
  \/ ShipConnectFail
  \/ ShipSendRecord
  \/ ShipSendFail
  \/ ShipCorrupt
  \/ ShipHeartbeat
  \/ ShipHeartbeatFail
  \/ \E d \in Elapsed : ShipIdle(d)
  \/ ShipAckDiscard
  \/ ShipAcked
  \/ ShipNoAck
  \/ ShipDiagAcked
  \/ ShipDiagTimeout
  \/ ShipHbAcked
  \/ ShipHbNoAck

\* Concurrency of the application tasks with the shipper: the steps of the
\* tasks interleave within one instant (millis() does not advance), the
\* network is up once it has come up and the collector answers in time.
Next ==
  \/ LoggerNext
  \/ ShipSendRecord
  \/ ShipCorrupt
  \/ ShipAcked
  \/ ShipDiagAcked
  \/ CollectorAccept
  \/ EnvWifiUp

Spec == Init /\ [][Next]_vars

\* The shipper against the collector and the network over time; the only
\* log calls are the shipper's own (checkForCommands).
ShipNext ==
  \/ ShipperNext
  \/ AppDrain
  \/ CollectorAccept
  \/ CollectorCommand
  \/ EnvWifiUp
  \/ EnvWifiDown

ShipSpec == Init /\ [][ShipNext]_vars

\* the server (or noise on the connection) writes a line that is no ack
CollectorMalformed ==
  /\ connAlive
  /\ Len(inbox) < MaxInbox
  /\ \A i \in 1..Len(inbox) : inbox[i].k \notin MalformedKinds
  /\ \E kind \in MalformedKinds : inbox' = Append(inbox, MalformedLine(kind))
  /\ UNCHANGED <<flashVars, loggerVars, shipVars, timeVars, now, wifiUp, stable, sntp, connAlive,
                 outbox, obsVars>>
  /\ UNCHANGED sideVars

\* The shipper against a collector that mixes lines that are no ack into its
\* replies.
AckNext ==
  \/ ShipperNext
  \/ CollectorAccept
  \/ CollectorCommand
  \/ CollectorMalformed
  \/ EnvWifiUp
  \/ EnvWifiDown

AckSpec == Init /\ [][AckNext]_vars

\* the line waitForAck reads next is a valid ack
ValidAckNext == inbox # <<>> /\ Head(inbox).k = "ack"
\* the line waitForAck reads next is no valid ack
InvalidLineNext == inbox # <<>> /\ Head(inbox).k # "ack"
\* waitForAck returns after ack_timeout_ms without a valid ack
AckTimedOut == spc = "sent" /\ spc' = "idle" /\ ~ValidAckNext

\* C36: while the shipper waits for the ack of a sent record and the next
\* line is no JSON object with ack equal to 1, the wait either goes on with
\* the record, the backoff and the connection flag as they are or ends
\* without an ack; the record is deleted only on a valid ack, and a wait that ends
\* without a valid ack ends as if nothing had been received: backoff
\* applied, connection closed, record kept.
C36_InvalidLinesAreIgnored ==
  [][/\ (spc = "sent" /\ InvalidLineNext /\ spc' # "idle") =>
          /\ spc' = "sent"
          /\ UNCHANGED <<ledger, is_connected, retry_index, next_retry_time,
                         last_send_time, failures>>
     /\ (spc = "sent" /\ ledger' # ledger) => ValidAckNext
     /\ AckTimedOut =>
          /\ ledger' = ledger
          /\ ~is_connected'
          /\ retry_index' = applyBackoff(retry_index, now').retry_index
          /\ next_retry_time' = applyBackoff(retry_index, now').next_retry_time
          /\ failures' = failures + 1]_vars

\* a line that is no ack is the next one read while the sent record waits
C36_Witness ==
  /\ spc = "sent"
  /\ ledger # <<>>
  /\ InvalidLineNext
  /\ Head(inbox).k \in MalformedKinds

\* applyBackoff and resetBackoff called in any order at any time; failures
\* counts the applyBackoff calls since the last resetBackoff.
BackoffFrame ==
  UNCHANGED <<flashVars, loggerVars, is_connected, last_send_time, spc, entry, command_queue,
              timeVars, wifiUp, stable, sntp, connAlive, outbox, inbox, lastAcc, synced, removed, ackRe, shipped,
              sideVars>>

BackoffApply ==
  /\ failures < MaxCalls
  /\ LET b == applyBackoff(retry_index, now)
     IN /\ retry_index' = b.retry_index
        /\ next_retry_time' = b.next_retry_time
  /\ failures' = failures + 1
  /\ UNCHANGED now
  /\ BackoffFrame

BackoffReset ==
  /\ retry_index' = resetBackoff.retry_index
  /\ next_retry_time' = resetBackoff.next_retry_time
  /\ failures' = 0
  /\ UNCHANGED now
  /\ BackoffFrame

BackoffTick(d) ==
  /\ now + d <= MaxTime
  /\ now' = now + d
  /\ UNCHANGED <<retry_index, next_retry_time, failures>>
  /\ BackoffFrame

BackoffNext ==
  \/ BackoffApply
  \/ BackoffReset
  \/ \E d \in Elapsed : BackoffTick(d)

BackoffSpec == Init /\ [][BackoffNext]_vars

\* Stamping: the application logs, the TimeManager syncs, the shipper
\* delivers and sends heartbeats, over restarts of the device.  Within a
\* boot the network comes up and stays up and no ack is late; an idle
\* shipper cycle is followed by the next one StampStep ms later.
StampNext ==
  \/ LogEvent
  \/ ShipSendRecord
  \/ ShipCorrupt
  \/ ShipHeartbeat
  \/ ShipIdle(StampStep)
  \/ ShipAcked
  \/ ShipDiagAcked
  \/ ShipHbAcked
  \/ CollectorAnswer
  \/ EnvWifiUp
  \/ EnvSntpReply
  \/ TimeSyncStart
  \/ TimeSyncSuccess
  \/ TimeSyncTimeout
  \/ TimeTaskWait(StampStep)
  \/ Reboot

StampSpec == Init /\ [][StampNext]_vars

\* Restarts of the device with every outcome of the boot counter file, and
\* the records logged in between.
BootNext ==
  \/ LogEvent
  \/ Reboot
  \/ RebootFault

BootSpec == Init /\ [][BootNext]_vars

\* Log calls with messages of every length class and level.
MsgNext == \E level \in Levels, len \in MessageLengths : LogMessage(level, len)

MsgSpec == Init /\ [][MsgNext]_vars

(***************************************************************************)
(* WiFiManager: begin() in setup(), then handle() from the task loop.      *)
(* WiFi.status() is WL_CONNECTED exactly while the station is associated   *)
(* (wifiUp); otherwise it is one of the not-connected codes.               *)
(***************************************************************************)
WiFiStatus == IF wifiUp THEN {"WL_CONNECTED"} ELSE {"WL_DISCONNECTED", "WL_CONNECTION_LOST"}

\* WiFiManager::startAPMode (main.cpp:301-327): STARTING_AP, softAP, CONNECTED_AP
startAPMode(w, t) == [w EXCEPT !.state = "CONNECTED_AP", !.state_change_time = t]

\* WiFiManager::connectToStation (main.cpp:266-299)
connectToStation(w, credential_index, t) ==
  IF credential_index < 0 \/ credential_index >= w.credentials
  THEN w
  ELSE [w EXCEPT !.current_credential_index = credential_index,
                 !.attempt_counter = 0,
                 !.state = "CONNECTING_STATION",
                 !.state_change_time = t]

\* a variant that starts over with the first credential when the list is exhausted
tryNextCredential_WrapsAround(w, t) ==
  LET n == [w EXCEPT !.current_credential_index = @ + 1]
  IN IF n.current_credential_index >= n.credentials
     THEN connectToStation(n, 0, t)
     ELSE connectToStation(n, n.current_credential_index, t)

\* WiFiManager::tryNextCredential (main.cpp:475-487)
tryNextCredential(w, t) ==
  LET n == [w EXCEPT !.current_credential_index = @ + 1]
  IN IF n.current_credential_index >= n.credentials
     THEN startAPMode(n, t)
     ELSE connectToStation(n, n.current_credential_index, t)

\* WiFiManager::updateConnectionState (main.cpp:333-375)
updateConnectionState(w, status, t) ==
  IF w.state \in {"CONNECTING_STATION", "CONNECTED_STATION", "RECONNECTING"}
  THEN IF status = "WL_CONNECTED"
       THEN IF w.state # "CONNECTED_STATION"
            THEN [w EXCEPT !.state = "CONNECTED_STATION", !.state_change_time = t,
                           !.attempt_counter = 0]
            ELSE w
       ELSE IF status = "WL_DISCONNECTED" /\ w.state = "CONNECTED_STATION"
            THEN [w EXCEPT !.state = "DISCONNECTED_WAITING", !.state_change_time = t,
                           !.disconnection_time = t]
            ELSE w
  ELSE w

\* the connection attempt in progress has timed out (main.cpp:387-394, 433-440)
AttemptTimedOut(w, status, t) ==
  /\ w.state \in {"CONNECTING_STATION", "RECONNECTING"}
  /\ status # "WL_CONNECTED"
  /\ t - w.state_change_time >= connection_timeout_ms

\* WiFiManager::handleStateTransitions (main.cpp:377-473)
handleStateTransitions(w, status, t) ==
  CASE w.state \in {"CONNECTING_STATION", "RECONNECTING"} ->
         IF AttemptTimedOut(w, status, t)
         THEN LET c == [w EXCEPT !.attempt_counter = @ + 1]
              IN IF c.attempt_counter >= max_attempts_per_network
                 THEN tryNextCredential(c, t)
                 ELSE [c EXCEPT !.state_change_time = t]
         ELSE w
    [] w.state = "DISCONNECTED_WAITING" ->
         IF t - w.disconnection_time >= disconnection_threshold_ms
         THEN tryNextCredential(w, t)
         ELSE w
    [] OTHER -> w

\* the uptime that passes between two handle() calls the model follows
WifiSteps == {connection_timeout_ms \div 2, connection_timeout_ms}
\* the uptime WifiSpec follows: every credential can use up its attempts
WifiHorizon ==
  MaxCredentials * max_attempts_per_network * (connection_timeout_ms + connection_timeout_ms \div 2)
    + connection_timeout_ms

WifiFrame == UNCHANGED <<flashVars, loggerVars, shipVars, timeVars, wifiUp, stable, sntp,
                         connAlive, outbox, inbox, obsVars, critical, logged, cycleVars,
                         ringVars, devVars, restarts>>

\* WiFiManager::begin (main.cpp:136-170) after loadConfig has loaded n credentials
WiFiManager_begin(n) ==
  /\ wifi.state = "DISCONNECTED"
  /\ wifi' = IF n = 0
             THEN startAPMode([wifi EXCEPT !.state = "STARTING_AP"], now)
             ELSE connectToStation([wifi EXCEPT !.credentials = n,
                                                !.state = "CONNECTING_STATION",
                                                !.current_credential_index = 0,
                                                !.attempt_counter = 0,
                                                !.state_change_time = now], 0, now)
  /\ UNCHANGED <<now, attempts>>
  /\ WifiFrame

WifiBegin == (\E n \in 0..MaxCredentials : WiFiManager_begin(n)) /\ UNCHANGED queueVars

\* d ms later the task loop calls WiFiManager::handle (main.cpp:172-178)
WiFiManager_handle(d, status) ==
  /\ wifi.state # "DISCONNECTED"
  \* a wait after a disconnection that began within the horizon is followed to its end
  /\ now + d <= WifiHorizon \/ wifi.state = "DISCONNECTED_WAITING"
  /\ now' = now + d
  /\ LET u == updateConnectionState(wifi, status, now')
     IN /\ wifi' = handleStateTransitions(u, status, now')
        /\ attempts' = attempts
                         \o (IF u.state = "CONNECTED_STATION" /\ wifi.state # "CONNECTED_STATION"
                             THEN <<-1>> ELSE <<>>)
                         \o (IF AttemptTimedOut(u, status, now')
                             THEN <<u.current_credential_index>> ELSE <<>>)
  /\ WifiFrame

WifiHandle ==
  (\E d \in WifiSteps, status \in WiFiStatus : WiFiManager_handle(d, status)) /\ UNCHANGED queueVars

\* the station associates / loses its association
WifiAssociates ==
  /\ ~wifiUp
  /\ wifi.state \in {"CONNECTING_STATION", "RECONNECTING"}
  /\ wifiUp' = TRUE
  /\ UNCHANGED <<flashVars, loggerVars, shipVars, timeVars, now, sntp, connAlive, outbox,
                 inbox, stable, obsVars, sideVars>>

WifiNext ==
  \/ WifiBegin
  \/ WifiHandle
  \/ WifiAssociates
  \/ EnvWifiDown

\* setup() calls begin() and the task loop keeps calling handle()
WifiSpec == Init /\ [][WifiNext]_vars /\ WF_vars(WifiBegin) /\ WF_vars(WifiHandle)

(***************************************************************************)
(* The FreeRTOS tasks around the WiFi status queue (part_004:329-481):     *)
(* wifiTask publishes an event when the state of the WiFiManager has       *)
(* changed; timeTask and mainTask both receive from the queue.             *)
(***************************************************************************)
\* initializeFreeRTOS: xQueueCreate(20, sizeof(WiFiStatusEvent)) (part_004:503)
WIFI_QUEUE_LENGTH == 20

\* WiFiManager::isConnected (main.cpp:493-495)
isConnected(w) == w.state \in {"CONNECTED_STATION", "CONNECTED_AP"}

\* xQueueSend with a timeout of 10 ms: the event is dropped when the queue stays full
xQueueSend(queue, event) == IF Len(queue) < WIFI_QUEUE_LENGTH THEN Append(queue, event) ELSE queue

\* xQueueReceive: what is left in the queue after the front event is taken
xQueueReceive(queue) == Tail(queue)

\* one round of wifiTask (part_004:329-383): handle(), then the event
WifiTaskRound ==
  /\ \E status \in WiFiStatus : WiFiManager_handle(connection_timeout_ms, status)
  /\ IF wifi'.state # lastWiFiState
     THEN /\ wifiStatusQueue' = xQueueSend(wifiStatusQueue, isConnected(wifi'))
          /\ lastWiFiState' = wifi'.state
     ELSE UNCHANGED <<wifiStatusQueue, lastWiFiState>>
  /\ UNCHANGED taskWifiIsConnected

\* one round of timeTask (part_004:396-427): receive without waiting, then
\* TimeManager::handle with the flag
TimeTaskRound ==
  /\ wifi.state # "DISCONNECTED"
  /\ LET got == wifiStatusQueue # <<>>
         flag == IF got THEN Head(wifiStatusQueue) ELSE taskWifiIsConnected
     IN /\ wifiStatusQueue' = IF got THEN xQueueReceive(wifiStatusQueue) ELSE wifiStatusQueue
        /\ taskWifiIsConnected' = flag
        /\ \E lockA, lockB \in BOOLEAN : TimeHandleWith(now, flag, lockA, lockB)
  /\ UNCHANGED <<ledger, bootFile, loggerVars, shipVars, now, wifiUp, stable, connAlive, outbox,
                 inbox, lastAcc, removed, ackRe, shipped, failures, critical, logged, wifi,
                 attempts, cycleVars, lastWiFiState, ringVars, devVars, restarts>>

\* one round of mainTask (part_004:443-481) that finds an event in the queue
MainTaskRound ==
  /\ wifi.state # "DISCONNECTED"
  /\ wifiStatusQueue # <<>>
  /\ wifiStatusQueue' = xQueueReceive(wifiStatusQueue)
  /\ UNCHANGED <<flashVars, loggerVars, shipVars, timeVars, envVars, obsVars, critical, logged,
                 wifi, attempts, cycleVars, lastWiFiState, taskWifiIsConnected, ringVars,
                 devVars, restarts>>

\* setup(): WiFiManager::begin with no credential or one
QueueBegin == (\E n \in {0, 1} : WiFiManager_begin(n)) /\ UNCHANGED queueVars

QueueNext ==
  \/ QueueBegin
  \/ WifiTaskRound
  \/ TimeTaskRound
  \/ MainTaskRound
  \/ WifiAssociates
  \/ EnvWifiDown

\* setup() calls begin(), and the scheduler lets every task run again and again
QueueSpec ==
  /\ CycleInit
  /\ [][QueueNext]_vars
  /\ WF_vars(QueueBegin) /\ WF_vars(WifiTaskRound) /\ WF_vars(TimeTaskRound)
  /\ WF_vars(MainTaskRound)

(***************************************************************************)
(* CycleManager (logger.cpp:416-556): setup() once, then loop() from its   *)
(* task.  It reads the time with TimeManager::getTime and the light with   *)
(* DeviceManager::getState.                                                *)
(***************************************************************************)
\* executeCycle: delay(60000) between pump on and pump off (logger.cpp:553)
CycleMs == 60000
\* frequency_minutes of the configurations followed
Frequencies == {2, 20}
\* the uptime between two loop() calls: several calls in a minute, or hours apart
OftenSteps == {CycleMs \div 3, CycleMs}
HourlySteps == {HourMs, 3 * HourMs}
\* the uptime in which loop() is followed call by call
CycleHorizon == 4 * CycleMs
\* the uptime in which loop() is followed hour by hour: two periods of the safety feed
FeedHorizon == 2 * CycleManager._maxTimeLightsOffSeconds * 1000 + HourMs

\* gmtime_r(...)->tm_min of a time_t that is not negative
tm_min(sec) == (sec \div 60) % 60

\* DeviceManager::getState (part_006:101-128): -1 when device_mutex is not
\* obtained within 1000 ms
getState(id, got) == IF got THEN devices[id] ELSE -1

\* CycleManager::loop decides to call triggerCycle (logger.cpp:481-541).
\* c: the object; light: currentLightState; t_now: getTime(); minute: tm_min
TriggersCycle(c, light, t_now, minute) ==
  IF light
  THEN IF ~c._lastLightState
       THEN minute % c._frequencyMinutes = 0
       ELSE minute % c._frequencyMinutes = 0 /\ ~c._triggeredThisMinute
  ELSE t_now - c._lastFeedTime >= c._maxTimeLightsOffSeconds

\* CycleManager::setup (logger.cpp:438-446) with the configuration loaded
CycleSetup ==
  /\ fed.at = -1
  /\ \E en \in BOOLEAN, f \in Frequencies, lock, got \in BOOLEAN :
       cycle' = [cycle EXCEPT !._enabled = en,
                              !._frequencyMinutes = f,
                              !._lastFeedTime = getTime(now, lock),
                              !._lastLightState = getState("light_power", got) # 0]
  /\ fed' = [fed EXCEPT !.at = now]
  /\ UNCHANGED <<flashVars, loggerVars, shipVars, timeVars, envVars, obsVars, critical, logged,
                 wifi, attempts, devices, queueVars, ringVars, devVars, restarts>>

\* d ms later the task calls CycleManager::loop (logger.cpp:481-541) and, when
\* it triggers, triggerCycle and executeCycle (logger.cpp:542-556).
\* lockNow, lockInfo, lockFeed: time_mutex obtained by the getTime calls of
\* loop, getTimeInfo and triggerCycle; got: device_mutex obtained by getState
loop(d, lockNow, lockInfo, lockFeed, got) ==
  /\ fed.at # -1
  /\ cycle._enabled
  /\ LET t == now + d
         light == getState("light_power", got) # 0
         minute == tm_min(getTime(t, lockInfo))
         trig == TriggersCycle(cycle, light, getTime(t, lockNow), minute)
         done == IF trig THEN t + CycleMs ELSE t
     IN /\ now' = done
        /\ cycle' = [cycle EXCEPT
                       !._triggeredThisMinute =
                          light /\ minute % cycle._frequencyMinutes = 0,
                       !._lastFeedTime = IF trig THEN getTime(done, lockFeed) ELSE @,
                       !._lastLightState = light]
        /\ fed' = IF trig
                  THEN [count |-> fed.count + 1, at |-> done,
                        minute |-> getTime(t, lockInfo) \div 60,
                        seen |-> getTime(t, lockInfo) \div 60]
                  ELSE [fed EXCEPT !.seen = getTime(t, lockInfo) \div 60]
  /\ UNCHANGED <<flashVars, loggerVars, shipVars, timeVars, wifiUp, stable, sntp, connAlive,
                 outbox, inbox, obsVars, critical, logged, wifi, attempts, devices, queueVars, ringVars, devVars, restarts>>

\* loop() called several times a minute
CycleLoopOften ==
  \E d \in OftenSteps, lockNow, lockInfo, lockFeed, got \in BOOLEAN :
    /\ now + d <= CycleHorizon
    /\ loop(d, lockNow, lockInfo, lockFeed, got)

\* loop() as it is called hours later
CycleLoopHourly ==
  \E d \in HourlySteps, lockNow, lockInfo, lockFeed, got \in BOOLEAN :
    /\ now + d <= FeedHorizon
    /\ loop(d, lockNow, lockInfo, lockFeed, got)

\* another task switches the light (DeviceManager::setState, part_006:56-99)
LightSwitch ==
  /\ fed.at # -1
  /\ devices' = [devices EXCEPT !["light_power"] = 1 - @]
  /\ UNCHANGED <<flashVars, loggerVars, shipVars, timeVars, envVars, obsVars, critical, logged,
                 wifi, attempts, cycle, fed, queueVars, ringVars, devVars, restarts>>

\* the boundary cycles of the first minutes after a boot, during which the
\* TimeManager may sync
CycleNext ==
  \/ CycleSetup
  \/ CycleLoopOften
  \/ LightSwitch
  \/ EnvWifiUp
  \/ TimeSyncStart
  \/ EnvSntpReply
  \/ TimeSyncSuccess

CycleSpec == CycleInit /\ [][CycleNext]_vars

\* a device that never gets connectivity, over hours
FeedNext ==
  \/ CycleSetup
  \/ CycleLoopHourly
  \/ LightSwitch

FeedSpec == CycleInit /\ [][FeedNext]_vars

(***************************************************************************)
(* The two mutexes.  A thread enters a critical section by taking the      *)
(* section's mutex (xSemaphoreTake) and leaves it by giving it; inside, it *)
(* can only make the calls the body of the section makes.  A take that    *)
(* times out returns without entering.                                     *)
(***************************************************************************)
\* the functions that take log_mutex
LogSections == {"appendToLog", "readFirstEntry", "deleteFirstEntry"}
\* the functions that take time_mutex
TimeSections == {"setSystemTime", "updateNTPState", "getTime", "isTimeConfident",
                 "getConfidenceState", "getLastSyncTime", "getMillisSinceSyncTime"}
MutexOf(f) == IF f \in LogSections THEN "log_mutex" ELSE "time_mutex"

\* variant: the success branch of updateNTPState logs while it holds time_mutex
CallsInside_LogsUnderTimeLock(f) ==
  IF f = "updateNTPState" THEN {"appendToLog"} ELSE {}

\* the functions with a critical section that the body of section f calls:
\* the bodies hold file operations, assignments and Serial output only
CallsInside(f) == {}

\* the functions with a critical section a thread calls outside any section:
\* every thread logs and reads the time; the shipper reads and deletes the
\* first entry; timeTask runs TimeManager::handle
EntryPoints(th) ==
  {"appendToLog", "getTime", "isTimeConfident", "getConfidenceState", "getLastSyncTime",
   "getMillisSinceSyncTime"}
    \cup (IF th = "net" THEN {"readFirstEntry", "deleteFirstEntry"} ELSE {})
    \cup (IF th = "time" THEN {"setSystemTime", "updateNTPState"} ELSE {})

Held(th) == {MutexOf(critical[th][i]) : i \in 1..Len(critical[th])}

LockFrame == UNCHANGED <<flashVars, loggerVars, shipVars, timeVars, envVars, obsVars, logged,
                          wifi, attempts, cycleVars, queueVars, ringVars, devVars, restarts>>

\* xSemaphoreTake returns pdTRUE: the mutex is held by no thread
LockEnter(th, f) ==
  /\ f \in (IF critical[th] = <<>> THEN EntryPoints(th) ELSE CallsInside(Head(critical[th])))
  /\ \A u \in LockThreads : MutexOf(f) \notin Held(u)
  /\ critical' = [critical EXCEPT ![th] = <<f>> \o @]
  /\ LockFrame

\* xSemaphoreGive at the end of the section
LockLeave(th) ==
  /\ critical[th] # <<>>
  /\ critical' = [critical EXCEPT ![th] = Tail(@)]
  /\ LockFrame

LockNext ==
  \/ \E th \in LockThreads, f \in LogSections \cup TimeSections : LockEnter(th, f)
  \/ \E th \in LockThreads : LockLeave(th)

LockSpec == Init /\ [][LockNext]_vars

\* The heartbeats of the shipper while application tasks are logging: a task
\* inside appendToLog holds the ledger mutex.  Records are not sent.
BeatNext ==
  \/ \E t \in Tasks : LogStartBuild(t)
  \/ \E t \in Tasks : LogAppend(t)
  \/ \E t \in Tasks : LogInc(t)
  \/ ShipHeartbeat
  \/ \E d \in Elapsed : ShipIdle(d)
  \/ ShipHbAcked
  \/ ShipHbNoAck
  \/ CollectorAnswer
  \/ EnvWifiUp

BeatSpec == Init /\ [][BeatNext]_vars

\* The shipper over a network that fails in any way until it settles
\* (EnvStabilize); from then on connection attempts succeed and no ack is
\* late.  No record is appended.  The shipper task and the collector run
\* forever (networkLoggerTask is a FreeRTOS task that loops on handle()).
LiveShipper ==
  \/ \E d \in Elapsed : ShipSkip(d)
  \/ ShipConnectFail /\ ~stable
  \/ ShipSendRecord
  \/ ShipSendFail
  \/ ShipCorrupt
  \/ ShipHeartbeat
  \/ ShipHeartbeatFail
  \/ \E d \in Elapsed : ShipIdle(d)
  \/ ShipAcked
  \/ ShipNoAck /\ (stable => ~AckComing)
  \/ ShipDiagAcked
  \/ ShipDiagTimeout /\ (stable => ~AckComing)
  \/ ShipHbAcked
  \/ ShipHbNoAck /\ (stable => ~AckComing)

LiveNext ==
  \/ LiveShipper
  \/ CollectorAccept
  \/ EnvWifiUp
  \/ EnvWifiDown /\ ~stable
  \/ EnvStabilize

LiveSpec ==
  /\ Init
  /\ [][LiveNext]_vars
  /\ WF_vars(LiveShipper)
  /\ WF_vars(CollectorAccept)

\* Stamping as a function of the anchor and of the record: the previous boot
\* synced at uptime u and left a record written at uptime e; the shipper of
\* this boot delivers it.  Uptimes are uint32_t, held as described at MaxInt32.
SyncUptimes == {0, 1500, 5000, 60000, 61999, MaxInt32, -MaxInt32, -1}
EntryUptimes == {0, 1, 999, 1500, 3500, 5000, 65000, 121500, MaxInt32 - 1, MaxInt32,
                 -MaxInt32, -1000000, -2, -1}

TsInit ==
  \E u \in SyncUptimes, e \in EntryUptimes :
    InitWith(<<Rec(PrevBoot, 0, e), Rec(PrevBoot + 1, 0, 0)>>, <<Anchor(PrevBoot, NtpEpoch, u)>>)

TsNext ==
  \/ EnvWifiUp
  \/ ShipSendRecord
  \/ CollectorAnswer
  \/ ShipAcked

TsSpec == TsInit /\ [][TsNext]_vars

\* The TimeManager driven by timeTask once per period within one boot, over
\* WiFi that comes and goes, an SNTP server that may answer and a time lock
\* that another task may hold.
TimeNext ==
  \/ TimeTick
  \/ EnvWifiUp
  \/ EnvWifiDown
  \/ EnvSntpReply

TimeSpec == Init /\ [][TimeNext]_vars

\* The same over hours of uptime in which a confidence once gained ages.
LapseNext ==
  \/ TimeTick
  \/ TimeTaskQuiet
  \/ EnvWifiUp
  \/ EnvWifiDown
  \/ EnvSntpReply

LapseSpec == Init /\ [][LapseNext]_vars

\* The anchor history over restarts of the device: in each boot the
\* TimeManager syncs, possibly more than once when the time lock was busy.
HistoryNext ==
  \/ TimeSyncStart
  \/ TimeSyncSuccess
  \/ TimeSyncSuccessBusy
  \/ TimeTaskWait(StampStep)
  \/ EnvWifiUp
  \/ EnvSntpReply
  \/ Reboot

HistorySpec == Init /\ [][HistoryNext]_vars

\* The same with restarts in which the read or the write of the boot counter
\* file fails.
AnchorNext ==
  \/ TimeSyncStart
  \/ TimeSyncSuccess
  \/ TimeTaskWait(StampStep)
  \/ EnvWifiUp
  \/ EnvSntpReply
  \/ Reboot
  \/ RebootFault

AnchorSpec == Init /\ [][AnchorNext]_vars

(***************************************************************************)
(* Claims about the concurrency of the Log Store and the shipper (Spec)    *)
(***************************************************************************)
\* C1: the record deleteFirstEntry removes after an ack is exactly the record
\* the shipper read with readFirstEntry and sent in that cycle, whatever the
\* application tasks append or rotate between the read and the delete.
C1_RemovedIsTheRecordRead == removed # NoLine => removed = entry

\* C2: within one boot generation no two records of the ledger share
\* (boot_seq, seq), and seq strictly increases in file order.
C2_SeqStrictlyIncreasesInFile ==
  \A i, j \in 1..Len(ledger) :
    (i < j /\ Parses(ledger[i]) /\ Parses(ledger[j]) /\ ledger[i].boot_seq = ledger[j].boot_seq)
      => ledger[i].seq < ledger[j].seq

\* C6: the records the collector accepts arrive in non-decreasing seq order
\* within a generation, and no record of an older generation is accepted
\* after a record of a younger one.
C6_AcceptedInOrder ==
  [][\A g \in Gens :
       /\ lastAcc'[g] >= lastAcc[g]
       /\ lastAcc'[g] # lastAcc[g] => \A h \in Gens : h > g => lastAcc[h] = -1]_vars

(***************************************************************************)
(* Claims about the shipper cycle (ShipSpec)                               *)
(***************************************************************************)
\* C3: a delivery that fails (the write fails, or no valid ack arrives within
\* ack_timeout_ms) removes nothing: the record read is still the first line
\* of the ledger, backoff is applied from the time of the failure, the
\* connection is closed and is_connected is false; the next cycle that gets
\* a connection gets a new one, outside the backoff window.
C3_FailedDeliveryKeepsRecord ==
  [][/\ (ShipSendFail \/ ShipNoAck) =>
          /\ ledger' = (IF spc = "sent" THEN ledger ELSE pre.ledger)
          /\ ledger' # <<>> /\ Head(ledger') = entry' /\ Parses(entry')
          /\ ~is_connected' /\ ~connAlive'
          /\ retry_index' >= 1
          /\ next_retry_time' = now' + retry_backoff_ms[retry_index']
          /\ InBackoff(next_retry_time', now')
     /\ (~is_connected /\ is_connected') =>
          /\ ~InBackoff(next_retry_time, now)
          /\ connAlive' /\ inbox' = <<>>]_vars

\* a record was sent at uptime 0, no ack came: first delay, connection closed
C3_Witness ==
  /\ now = ack_timeout_ms
  /\ shipped.k = "rec"
  /\ ~is_connected
  /\ retry_index = 1 /\ next_retry_time = now + retry_backoff_ms[1]
  /\ ledger # <<>> /\ Head(ledger) = entry

\* C4: a record is deleted only on an ack that answers the line just sent for
\* it, never on the ack of an earlier line.
C4_AckAnswersLineSent == removed # NoLine => ackRe = shipped

\* C7: the n-th of consecutive delivery failures (no acknowledged record or
\* heartbeat in between) waits retry_backoff_ms[min(n,3)], also when the
\* connection is re-established between the failures; the index returns to
\* the first entry only after an acknowledged delivery.
C7_FailuresWalkTheTable ==
  [][/\ failures' = failures + 1 =>
          next_retry_time' = now' + retry_backoff_ms[IF failures' < 3 THEN failures' ELSE 3]
     /\ (retry_index # 0 /\ retry_index' = 0) => failures' = 0]_vars

\* C9: while a backoff window is active the connection is closed, nothing is
\* sent, read or deleted; a failed connection attempt applies backoff and
\* does nothing else; whatever is sent, read or deleted is so in a cycle
\* that holds a connection.
C9_BackoffWindowIsQuiet ==
  /\ [](InBackoff(next_retry_time, now) => ~is_connected /\ spc = "idle")
  /\ [][/\ InBackoff(next_retry_time, now) =>
            UNCHANGED <<ledger, outbox, entry, shipped, is_connected, retry_index, next_retry_time>>
        /\ ShipConnectFail =>
            /\ next_retry_time' = now + retry_backoff_ms[retry_index']
            /\ UNCHANGED <<ledger, outbox, entry, shipped, is_connected>>
        /\ (Len(outbox') > Len(outbox) \/ Len(ledger') < Len(ledger) \/ entry' # entry) =>
            (is_connected \/ is_connected')]_vars

\* a second failed connection attempt has opened the second backoff window
C9_Witness ==
  /\ InBackoff(next_retry_time, now)
  /\ ~is_connected
  /\ retry_index = 2
  /\ now > 0

(***************************************************************************)
(* Claims about applyBackoff / resetBackoff alone (BackoffSpec)            *)
(***************************************************************************)
\* C8: the n-th applyBackoff in a row applies retry_backoff_ms[min(n,3)]
\* (5 s, 10 s, 30 s, 30 s, ...) and sets next_retry_time to the current time
\* plus that delay; resetBackoff returns the index to the first entry and
\* clears the backoff window.
C8_BackoffStateMachine ==
  [][/\ BackoffApply =>
          LET n == failures'
              k == IF n < 3 THEN n ELSE 3
          IN /\ next_retry_time' = now + retry_backoff_ms[k]
             /\ retry_index' = k
             /\ InBackoff(next_retry_time', now')
     /\ BackoffReset =>
          /\ retry_index' = 0
          /\ ~InBackoff(next_retry_time', now')
          /\ \A t \in 0..MaxTime : ~InBackoff(next_retry_time', t)]_vars

\* the fourth applyBackoff in a row, made after time has passed, holds at 30 s
C8_Witness ==
  /\ failures = 4
  /\ retry_index = 3
  /\ now > 0
  /\ next_retry_time = now + retry_backoff_ms[3]

SendStep == spc = "idle" /\ spc' \in {"sent", "hb"}

LaterSynced(g) == {h \in synced : h > g}

WritesLine == spc = "idle" /\ spc' \in {"sent", "hb", "diag"} /\ outbox' # <<>>
LineWritten == outbox'[Len(outbox')]

Quot1000(a) == IF a >= 0 THEN a \div 1000 ELSE 4294967 + ((a + 296) \div 1000)
Rem1000(a) == IF a >= 0 THEN a % 1000 ELSE (a + 296) % 1000
\* floor((e - u) / 1000) for the uint32_t values e and u
FloorSeconds(e, u) ==
  (Quot1000(e) - Quot1000(u)) - (IF Rem1000(e) >= Rem1000(u) THEN 0 ELSE 1)

\* C12: for every anchor (g, T, U) and every record of generation g with uptime
\* e, written after or before the sync, anywhere in the 32-bit uptime range,
\* the record is sent with the timestamp T + floor((e - U) / 1000).
C12_StampIsFloorOfDifference ==
  (spc = "sent" /\ shipped.k = "rec" /\ HasAnchor(anchors, shipped.boot_seq)) =>
    LET a == getNTPHistoryForBoot(anchors, shipped.boot_seq)
    IN /\ ~shipped.ts.null
       /\ shipped.ts.sec = a.ntp_sync_time + FloorSeconds(shipped.uptime_ms, a.sync_uptime_ms)

(***************************************************************************)
(* Claims about the sync state machine of the TimeManager (TimeSpec)       *)
(***************************************************************************)
\* a step in which timeTask has called handle()
HandleCall == now' # now
\* the values ntp_state went through in that call, the one before it first
StatesOfCall == <<ntp_state>> \o ntp_path'
SyncEdges ==
  { <<"IDLE", "SYNCING">>, <<"SYNCING", "SUCCESS">>, <<"SYNCING", "FAILED">>,
    <<"SUCCESS", "IDLE">>, <<"FAILED", "IDLE">>, <<"SYNCING", "IDLE">> }

\* C13: ntp_state changes only along IDLE -> SYNCING -> {SUCCESS, FAILED} ->
\* IDLE and SYNCING -> IDLE (abort); SYNCING is entered only from IDLE, in a
\* call with WiFi connected and confidence UNCONFIDENT; when handle() returns
\* the state is IDLE or SYNCING.
C13_SyncStateMachine ==
  /\ [](ntp_state \in {"IDLE", "SYNCING"})
  /\ [][HandleCall =>
          /\ \A i \in 1..Len(ntp_path') :
                /\ <<StatesOfCall[i], StatesOfCall[i + 1]>> \in SyncEdges
                /\ StatesOfCall[i + 1] = "SYNCING" =>
                     wifiUp /\ confidence_state' = "UNCONFIDENT"
          /\ ntp_state' = StatesOfCall[Len(StatesOfCall)]]_vars

\* a sync succeeded while the time lock was held by another task, and the
\* same call started the next sync
C13_Witness == ntp_path = <<"SUCCESS", "IDLE", "SYNCING">> /\ ntp_state = "SYNCING"

(***************************************************************************)
(* Claims about the confidence window (LapseSpec)                          *)
(***************************************************************************)
\* seconds on the clock since the last sync that took effect
SinceSync(t) == SystemClock(t) - last_sync_time
WindowSeconds == confidence_window_hours * SecondsPerHour

\* C14: once more than the confidence window has passed since the last sync
\* the TimeManager counts as UNCONFIDENT: a handle() call in IDLE with WiFi
\* connected then starts a new sync (the state becomes SYNCING).
C14_LapsedConfidenceResyncs ==
  [][(/\ HandleCall
      /\ ntp_state = "IDLE"
      /\ wifiUp
      /\ last_sync_time > 0
      /\ ~isTimeConfident(now', TRUE)) => ntp_state' = "SYNCING"]_vars

(***************************************************************************)
(* Claims about single handle() calls (TimeSpec)                           *)
(***************************************************************************)
\* C15: a handle() call with WiFi not connected that starts in SYNCING ends in
\* IDLE and leaves the confidence, the last sync time, the adopted time and
\* the anchor history as they were, also when the clock is already plausible.
C15_AbortAdoptsNothing ==
  [][(HandleCall /\ ntp_state = "SYNCING" /\ ~wifiUp) =>
       /\ ntp_state' = "IDLE"
       /\ UNCHANGED <<confidence_state, last_sync_time, current_time, anchors>>]_vars

\* C16: a sync success takes effect as a whole, also when another task holds
\* time_mutex during the transition: once a sync of the running boot has gone
\* through SUCCESS there is an anchor for the running boot, the confidence is
\* CONFIDENT and the last sync time is the time adopted; and whenever
\* isTimeConfident() is true, getLastSyncTime() is above 0.
C16_SuccessIsWhole ==
  /\ boot_seq \in synced =>
        /\ HasAnchor(anchors, boot_seq)
        /\ confidence_state = "CONFIDENT"
        /\ last_sync_time = getNTPHistoryForBoot(anchors, boot_seq).ntp_sync_time
        /\ current_time = last_sync_time
  /\ isTimeConfident(now, TRUE) => last_sync_time > 0

\* C17: once a sync has succeeded and no further sync has happened,
\* isTimeConfident() is true exactly while the seconds elapsed since the last
\* successful sync are within the configured window (hours, as seconds).
C17_ConfidentWithinWindow ==
  (confidence_state = "CONFIDENT" /\ last_sync_time > 0 /\ SinceSync(now) >= 0) =>
    (isTimeConfident(now, TRUE) <=> SinceSync(now) <= WindowSeconds)

\* C18: with time_mutex obtained, getTime() returns the live clock only when
\* the state is CONFIDENT and the time since the last sync is within the
\* confidence window, and the fixed fallback in every other case; before any
\* sync the value is not 0 and isTimeConfident() is false.
C18_GetTimeLiveOnlyWhenConfident ==
  /\ getTime(now, TRUE) =
        IF confidence_state = "CONFIDENT" /\ SinceSync(now) <= WindowSeconds
        THEN SystemClock(now) ELSE compile_time
  /\ last_sync_time = 0 => getTime(now, TRUE) # 0 /\ ~isTimeConfident(now, TRUE)

\* C19: when no plausible calendar time has appeared while SYNCING and the
\* time since the request has reached the sync timeout, the call of handle()
\* ends the attempt as FAILED: the confidence is UNCONFIDENT, the current-time
\* estimate is the fallback and no anchor is written; and no attempt is in
\* SYNCING for longer than the timeout plus one period of the time task.
TimeoutMs == ntp_timeout_seconds * 1000
TimedOutCall ==
  /\ HandleCall
  /\ ntp_state = "SYNCING"
  /\ ~got_valid_time
  /\ Int32Sub(now', ntp_attempt_time) >= TimeoutMs
C19_TimeoutFails ==
  /\ [](ntp_state = "SYNCING" =>
          Int32Sub(now, ntp_attempt_time) <= TimeoutMs + xFrequency)
  /\ [][TimedOutCall =>
          /\ ntp_path' # <<>>
          /\ Head(ntp_path') = "FAILED"
          /\ confidence_state' = "UNCONFIDENT"
          /\ current_time' = compile_time
          /\ anchors' = anchors]_vars
C19_Witness ==
  /\ ntp_path # <<>>
  /\ Head(ntp_path) = "FAILED"
  /\ confidence_state = "UNCONFIDENT"
  /\ current_time = compile_time
  /\ ~HasAnchor(anchors, boot_seq)
  /\ now >= TimeoutMs

\* C20: after any successful syncs over any boots the anchor history holds at
\* most one anchor per boot generation and at most MAX_BOOT_HISTORY anchors,
\* and the generations kept are the most recent ones that synced (the anchor
\* evicted is the one of the oldest generation); a sync in a generation that
\* has an anchor replaces that anchor in place and the history does not grow.
AnchorBoots == {anchors[i].boot_seq : i \in 1..Len(anchors)}
ReSync == HasAnchor(anchors, boot_seq) /\ anchors' # anchors
BeginStep == \E got \in BOOLEAN, outcome \in WriteOutcomes : begin(got, outcome)
PairRepeats(lines) ==
  \E i, j \in 1..Len(lines) :
    /\ i < j
    /\ Parses(lines[i]) /\ Parses(lines[j])
    /\ lines[i].boot_seq = lines[j].boot_seq
    /\ lines[i].seq = lines[j].seq
C21_GenerationsNeverRepeat ==
  /\ [](bootFile = boot_seq /\ ~PairRepeats(ledger))
  /\ [][BeginStep => boot_seq' = boot_seq + 1]_vars

\* C22: every read and rewrite of the ledger file happens under the ledger
\* lock, so whatever the interleaving of the tasks a step changes the ledger
\* only by appending one line at its end or by removing its oldest lines: no
\* appended record is lost, duplicated or reordered by a rotation or delete.
AppendsOne(before, after) ==
  Len(after) = Len(before) + 1 /\ SubSeq(after, 1, Len(before)) = before
DropsOldest(before, after) ==
  \E n \in 1..Len(before) : after = Drop(before, n)
C22_LedgerChangesUnderLock ==
  [][ledger' # ledger => AppendsOne(ledger, ledger') \/ DropsOldest(ledger, ledger')]_vars

\* C23: whenever a rotation runs (the ledger read is above 80% of the
\* capacity), the ledger it writes is a contiguous suffix of the ledger it
\* read (the most recent records, unchanged and in order), no larger than
\* the 80% threshold, and holds at least one record.
RotationWrites(t) == lpc[t] = "prune" /\ lpc'[t] = "built"
IsSuffix(after, before) ==
  \E n \in 0..Len(before) : after = Drop(before, n)
AppendReturns(t) == lpc[t] = "built" /\ lpc'[t] # "built"
LogReturns(t) == lpc[t] = "appended" /\ lpc'[t] # "appended"
CorruptCycleStarts == spc = "idle" /\ spc' = "diag"
CorruptCycleEnds == spc = "diag" /\ spc' = "idle"
C25_CorruptLineRemovedOnce ==
  [][/\ CorruptCycleStarts =>
          /\ ~Parses(entry')
          /\ ledger' # <<>> /\ Head(ledger') = entry'
          /\ outbox' = tcpPrint(conn.alive, conn.outbox, WireDiag(anchors, now))
     /\ CorruptCycleEnds =>
          /\ outbox' = outbox
          /\ ledger # <<>> /\ Head(ledger) = entry
          /\ ledger' = Tail(ledger)]_vars

\* C26: a heartbeat is written only in a cycle in which the ledger holds no
\* record and at least heartbeat_interval_ms have passed since the last
\* acknowledged send or the connection was made; the cycle adds no line to
\* the ledger; and a heartbeat without ack applies the backoff and closes
\* the connection as a record without ack does.
HeartbeatStarts == spc = "idle" /\ spc' = "hb"
HeartbeatUnacked == spc = "hb" /\ spc' = "idle" /\ now' # now
C26_HeartbeatOnlyWhenIdle ==
  [][/\ HeartbeatStarts =>
          /\ pre.ledger = <<>>
          /\ now - conn.last >= heartbeat_interval_ms
          /\ ledger' = pre.ledger
     /\ HeartbeatUnacked =>
          /\ ~is_connected' /\ ~connAlive'
          /\ retry_index' = applyBackoff(retry_index, now').retry_index
          /\ next_retry_time' = applyBackoff(retry_index, now').next_retry_time
          /\ ledger' = ledger]_vars

\* C27: on a live connection every command line read from the collector,
\* also one that arrives while the shipper waits for an ack, is forwarded
\* to the command queue, or dropped only because the queue is full, and a
\* status command makes exactly one Logger::log call.
CommandConsumed ==
  /\ is_connected /\ is_connected'
  /\ inbox # <<>> /\ Head(inbox).k = "cmd"
  /\ inbox' = Tail(inbox)
C27_CommandHandledOnce ==
  [][CommandConsumed =>
       /\ command_queue' = IF Len(command_queue) < QueueLen
                           THEN Append(command_queue, Head(inbox).name)
                           ELSE command_queue
       /\ Head(inbox).name = "status" => entry_seq' = entry_seq + 1]_vars

C29_TruncationLoggedOnce ==
  logged # <<>> =>
    /\ logged[1].msg_len = IF logged[1].len < MAX_MESSAGE_SIZE THEN logged[1].len
                           ELSE MAX_MESSAGE_SIZE
    /\ Len(logged) = IF logged[1].len > MAX_MESSAGE_SIZE THEN 2 ELSE 1
    /\ Len(logged) = 2 => logged[2].level = "error" /\ logged[2].len <= MAX_MESSAGE_SIZE


(***************************************************************************)
(* C30                                                                     *)
(***************************************************************************)
\* the timed-out attempts of n credentials tried in configured order, each
\* max_attempts_per_network times
AttemptsInOrder(n) ==
  [i \in 1..(n * max_attempts_per_network) |-> (i - 1) \div max_attempts_per_network]

NeverConnected == \A i \in 1..Len(attempts) : attempts[i] # -1

IsPrefix(a, b) == Len(a) <= Len(b) /\ a = SubSeq(b, 1, Len(a))

\* begin() enters AP mode exactly when no credentials are loaded
BeginsInApIffEmpty ==
  wifi.state = "DISCONNECTED" /\ wifi' # wifi
    => (wifi'.state = "CONNECTED_AP" <=> wifi'.credentials = 0)

\* no handle() call leaves CONNECTED_AP
ApIsSticky == wifi.state = "CONNECTED_AP" => wifi'.state = "CONNECTED_AP"

\* C30: while no configured network has connected, the timed-out attempts
\* follow the configured order of the credentials, max_attempts_per_network
\* for each, and AP mode is entered when and only when all of them are used
\* up; begin() enters AP mode at once exactly when no credentials are
\* loaded; CONNECTED_AP is never left; and if no network ever connects, AP
\* mode is eventually entered.
C30_FallsBackToApMode ==
  /\ [](NeverConnected =>
          /\ IsPrefix(attempts, AttemptsInOrder(wifi.credentials))
          /\ wifi.state = "CONNECTED_AP" <=>
               /\ attempts = AttemptsInOrder(wifi.credentials)
               /\ wifi.state # "DISCONNECTED")
  /\ [][BeginsInApIffEmpty /\ ApIsSticky]_vars
  /\ <>(wifiUp \/ wifi.state = "CONNECTED_AP")

\* every credential has used up its attempts, AP mode was entered and
\* handle() has been called again since
C30_Witness ==
  /\ wifi.state = "CONNECTED_AP"
  /\ wifi.credentials = MaxCredentials
  /\ NeverConnected
  /\ Len(attempts) = MaxCredentials * max_attempts_per_network
  /\ now > wifi.state_change_time


(***************************************************************************)
(* C31                                                                     *)
(***************************************************************************)
\* C31: after the manager has seen the connection lost in CONNECTED_STATION
\* (it is in DISCONNECTED_WAITING) it goes back to attempting a station
\* connection, from where it can return to CONNECTED_STATION.
C31_ReconnectsAfterLoss ==
  (wifi.state = "DISCONNECTED_WAITING")
    ~> (wifi.state \in {"CONNECTING_STATION", "RECONNECTING", "CONNECTED_STATION"})


(***************************************************************************)
(* C32                                                                     *)
(***************************************************************************)
\* a loop() call returns (only loop() lets uptime pass in CycleSpec)
LoopReturns == now' # now
\* the call has triggered a cycle
CycleTriggered == fed'.count = fed.count + 1
\* the minute the call was told is a multiple of frequency_minutes
AtBoundary == (fed'.seen % 60) % cycle._frequencyMinutes = 0

\* C32: a loop() call made with the light ON triggers a cycle only in a
\* minute that is a multiple of frequency_minutes; in such a minute it
\* triggers at once when the light has just turned ON, and otherwise when
\* no cycle has been triggered in that minute yet; it never triggers a
\* second cycle in the minute of the last one.
C32_OneCyclePerBoundaryMinute ==
  [][(LoopReturns /\ devices["light_power"] = 1 /\ cycle'._lastLightState) =>
       /\ CycleTriggered => AtBoundary
       /\ AtBoundary /\ ~cycle._lastLightState => CycleTriggered
       /\ AtBoundary /\ cycle._lastLightState /\ fed.minute # fed'.seen => CycleTriggered
       /\ cycle._lastLightState /\ fed.minute = fed'.seen => ~CycleTriggered]_vars


(***************************************************************************)
(* C33                                                                     *)
(***************************************************************************)
\* the uptime at which the loop() call that returns was made
CallTime == IF CycleTriggered THEN now' - CycleMs ELSE now'

\* C33: a loop() call made with the light OFF triggers a feed cycle exactly
\* when at least max_time_lights_off has passed since the last feed (or
\* since setup): never before, and always once the period is over.
C33_SafetyFeedEveryPeriod ==
  [][(LoopReturns /\ devices["light_power"] = 0) =>
       (CycleTriggered <=>
          CallTime - fed.at >= cycle._maxTimeLightsOffSeconds * 1000)]_vars


(***************************************************************************)
(* C34                                                                     *)
(***************************************************************************)
\* C34: when appendToLog returns with the record written, the ledger,
\* the new record included, is not above the 80% high-water mark.
C34_CheckedAfterAppend ==
  [][\A t \in Tasks :
       AppendReturns(t) /\ ledger' = Append(ledger, lline[t]) => ~NeedsRotation(ledger')]_vars


(***************************************************************************)
(* C35                                                                     *)
(***************************************************************************)
\* C35: whatever the interleaving of the tasks, once the connected state of
\* the WiFiManager stays at a value, the flag timeTask passes to
\* TimeManager::handle eventually stays at that value.
C35_TimeTaskSeesConnectivity ==
  \A c \in BOOLEAN : <>[](isConnected(wifi) = c) => <>[](taskWifiIsConnected = c)


(***************************************************************************)
(* The event log of the TimeManager (part_006:996-1080).  An event is      *)
(* stored as its ordinal (the first event logged is 1); a slot holding 0   *)
(* is empty (memset in the constructor, part_006:619).                     *)
(***************************************************************************)
RingFrame ==
  UNCHANGED <<flashVars, loggerVars, shipVars, timeVars, envVars, obsVars, critical, logged,
              wifi, attempts, cycleVars, queueVars, devVars, restarts>>

\* logEvent(message), message not empty
logEvent ==
  /\ events < MaxEvents
  /\ time_log' = [time_log EXCEPT ![log_index] = events + 1]
  /\ log_index' = (log_index + 1) % MAX_LOG_ENTRIES
  /\ events' = events + 1
  /\ printed' = NotPrinted
  /\ RingFrame

\* getLogEntryCount(): the slots whose message is not empty
getLogEntryCount == Cardinality({i \in 0..(MAX_LOG_ENTRIES - 1) : time_log[i] # 0})

\* printTimeLog(): entries slots from log_index on, the empty ones skipped
printTimeLog ==
  /\ LET entries == Cardinality({i \in 0..(MAX_LOG_ENTRIES - 1) : time_log[i] # 0})
         visited == [i \in 1..entries |-> time_log[(log_index + (i - 1)) % MAX_LOG_ENTRIES]]
     IN printed' = SelectSeq(visited, LAMBDA e : e # 0)
  /\ UNCHANGED <<time_log, log_index, events>>
  /\ RingFrame

RingNext ==
  \/ logEvent
  \/ printTimeLog

RingSpec == CycleInit /\ [][RingNext]_vars

Min(a, b) == IF a < b THEN a ELSE b
\* the most recent min(n, MAX_LOG_ENTRIES) events, oldest first
MostRecent == [i \in 1..Min(events, MAX_LOG_ENTRIES) |-> events - Min(events, MAX_LOG_ENTRIES) + i]

\* C37: after n events getLogEntryCount() is min(n, 100), the buffer holds
\* the most recent min(n, 100) events, and printTimeLog() prints each of
\* them once, oldest first, for every n.
C37_RingBufferPrintsStored ==
  /\ getLogEntryCount = Min(events, MAX_LOG_ENTRIES)
  /\ {time_log[i] : i \in 0..(MAX_LOG_ENTRIES - 1)} \ {0} = {MostRecent[i] : i \in DOMAIN MostRecent}
  /\ printed # NotPrinted => printed = MostRecent


(***************************************************************************)
(* Claims about the order of the anchors (AnchorSpec).  The calendar time  *)
(* CalendarAt never goes backwards: it grows with the uptime within a boot *)
(* and by BootSpacing with every restart.                                  *)
(***************************************************************************)
\* C38: with a calendar clock that never goes backwards, the anchors of the
\* history ordered by increasing boot generation have non-decreasing
\* calendar times, after any sequence of boots and successful syncs.
C38_AnchorsMonotone ==
  \A i, j \in 1..Len(anchors) :
    anchors[i].boot_seq < anchors[j].boot_seq =>
      anchors[i].ntp_sync_time <= anchors[j].ntp_sync_time


(***************************************************************************)
(* DeviceManager::setState and saveConfiguration (part_006:56-99,          *)
(* 225-262).  device_mutex comes from xSemaphoreCreateMutex (part_006:40), *)
(* a mutex that is not recursive: xSemaphoreTake by the task that holds it *)
(* waits like any other task and returns pdFALSE after the timeout.  A     *)
(* thread inside setState or getState holds device_mutex.                  *)
(***************************************************************************)
DeviceSections == {"setState", "getState"}
DeviceValues == {0, 1}
HoldsDeviceMutex(th) == \E i \in 1..Len(critical[th]) : critical[th][i] \in DeviceSections

DeviceFrame ==
  UNCHANGED <<flashVars, loggerVars, shipVars, timeVars, wifiUp, stable, sntp, connAlive, outbox,
              inbox, obsVars, logged, wifi, attempts, cycle, fed, queueVars, ringVars, restarts>>

\* setState / getState: xSemaphoreTake(device_mutex) returns pdTRUE
DeviceTake(th, f) ==
  /\ critical[th] = <<>>
  /\ \A u \in LockThreads : ~HoldsDeviceMutex(u)
  /\ critical' = [critical EXCEPT ![th] = <<f>>]
  /\ UNCHANGED <<now, devices, devVars>>
  /\ DeviceFrame

\* saveConfiguration called by thread th: the file after the call, and
\* whether the call waited for a mutex that th holds itself
saveConfiguration(th, states, file) ==
  IF \E u \in LockThreads : HoldsDeviceMutex(u)
  THEN [file |-> file, waited |-> device_mutex_timeout_ms, self |-> HoldsDeviceMutex(th)]
  ELSE [file |-> states, waited |-> 0, self |-> FALSE]

\* setState(device_id, value) from the mutex taken to the return; the device
\* is found and its type is digital_out
setState(th, device_id, value) ==
  /\ critical[th] = <<"setState">>
  /\ now + device_mutex_timeout_ms <= MaxTime
  /\ devices' = [devices EXCEPT ![device_id] = value]
  /\ LET saved == saveConfiguration(th, devices', deviceFile)
     IN /\ deviceFile' = saved.file
        /\ selfWait' = (selfWait \/ saved.self)
        /\ now' = now + saved.waited
  /\ critical' = [critical EXCEPT ![th] = <<>>]
  /\ DeviceFrame

\* getState from the mutex taken to the return
getStateReturn(th) ==
  /\ critical[th] = <<"getState">>
  /\ critical' = [critical EXCEPT ![th] = <<>>]
  /\ UNCHANGED <<now, devices, devVars>>
  /\ DeviceFrame

DeviceNext ==
  \/ \E th \in LockThreads, f \in DeviceSections : DeviceTake(th, f)
  \/ \E th \in LockThreads, device_id \in DeviceIds, value \in DeviceValues :
       setState(th, device_id, value)
  \/ \E th \in LockThreads : getStateReturn(th)

DeviceSpec == CycleInit /\ [][DeviceNext]_vars

\* C39: a successful setState persists the new state (when it has returned
\* the config file holds the states of the devices) and never waits for a
\* lock its own task holds.
C39_SetStatePersists ==
  /\ ~selfWait
  /\ (\A th \in LockThreads : critical[th] = <<>>) => deviceFile = devices

====
